---- MODULE Spec2Model ----
(***************************************************************************)
(* TravelMate: the plan-generation action (convex/routes.ts) together with *)
(* the provider wrappers it calls (convex/travel_apis.ts, ApiResult        *)
(* version) and the routes store it writes.                                *)
(*                                                                         *)
(* Strings are TLA+ strings; JavaScript string methods are operators.      *)
(* An absent optional string is Undefined, an absent object is NoData.     *)
(***************************************************************************)
EXTENDS Integers, Sequences, FiniteSets, TLC

Undefined == "<undefined>"
NoData == [undefined |-> TRUE]

(***************************************************************************)
(* JavaScript string primitives                                            *)
(***************************************************************************)
UpperLetters == "ABCDEFGHIJKLMNOPQRSTUVWXYZ"
LowerLetters == "abcdefghijklmnopqrstuvwxyz"
Digits == "0123456789"

CharAt(s, i) == SubSeq(s, i, i)

IndexIn(alphabet, c) ==
  IF \E i \in 1..Len(alphabet) : CharAt(alphabet, i) = c
  THEN CHOOSE i \in 1..Len(alphabet) : CharAt(alphabet, i) = c
  ELSE 0

IsUpper(c) == IndexIn(UpperLetters, c) # 0

\* \w of a JavaScript regular expression
IsWordChar(c) ==
  \/ IndexIn(UpperLetters, c) # 0
  \/ IndexIn(LowerLetters, c) # 0
  \/ IndexIn(Digits, c) # 0
  \/ c = "_"

LowerChar(c) ==
  IF IsUpper(c) THEN CharAt(LowerLetters, IndexIn(UpperLetters, c)) ELSE c

RECURSIVE toLowerCase(_)
toLowerCase(s) ==
  IF Len(s) = 0 THEN ""
  ELSE LowerChar(CharAt(s, 1)) \o toLowerCase(SubSeq(s, 2, Len(s)))

\* s.includes(sub)
includes(s, sub) ==
  \E i \in 1..(Len(s) - Len(sub) + 1) : SubSeq(s, i, i + Len(sub) - 1) = sub

IsSpace(c) == c = " "

RECURSIVE trimStart(_)
trimStart(s) ==
  IF Len(s) > 0 /\ IsSpace(CharAt(s, 1))
  THEN trimStart(SubSeq(s, 2, Len(s)))
  ELSE s

RECURSIVE trimEnd(_)
trimEnd(s) ==
  IF Len(s) > 0 /\ IsSpace(CharAt(s, Len(s)))
  THEN trimEnd(SubSeq(s, 1, Len(s) - 1))
  ELSE s

trim_startOnly(s) == trimStart(s)

\* s.trim()
trim(s) == trimEnd(trimStart(s))

\* s.split(',').pop(): the text after the last comma (all of s without one)
splitPop(s) ==
  LET commas == { i \in 1..Len(s) : CharAt(s, i) = "," }
  IN IF commas = {} THEN s
     ELSE LET last == CHOOSE i \in commas : \A j \in commas : j <= i
          IN SubSeq(s, last + 1, Len(s))

\* JavaScript a || b on strings: the empty string is falsy
OrElse(a, b) == IF a = Undefined \/ a = "" THEN b ELSE a

(***************************************************************************)
(* getVisaRequirements (mock table lookup)                                 *)
(***************************************************************************)
visaFreeCountries ==
  [ American |-> <<"UK", "Germany", "France", "Japan", "South Korea">>,
    British  |-> <<"USA", "Canada", "Australia", "Germany", "France">>,
    German   |-> <<"USA", "UK", "Canada", "Australia", "Japan">>,
    Canadian |-> <<"USA", "UK", "Germany", "France", "Australia">> ]

visaFreeDocuments ==
  << "Valid passport (6+ months validity)",
     "Return flight tickets",
     "Proof of accommodation" >>

visaRequiredDocuments_none == <<>>

visaRequiredDocuments ==
  << "Valid passport (6+ months validity)",
     "Completed visa application form",
     "Passport-sized photographs (2)",
     "Proof of accommodation booking",
     "Return flight tickets",
     "Bank statements (3 months)",
     "Travel insurance certificate",
     "Invitation letter (if applicable)",
     "Proof of employment/income" >>

mockNote ==
  "Note: This is example visa information. Always verify with official sources before travel."

\* args.destination.split(',').pop()?.trim().toLowerCase() || args.destination.toLowerCase()
destinationCountry(destination) ==
  OrElse(toLowerCase(trim(splitPop(destination))), toLowerCase(destination))

someCountryIncluded_caseSensitive(list, country) ==
  \E k \in 1..Len(list) : includes(country, list[k])

\* visaFreeCountries[citizenship].some(country => destinationCountry.includes(country.toLowerCase()))
someCountryIncluded(list, country) ==
  \E k \in 1..Len(list) : includes(country, toLowerCase(list[k]))

isVisaFree(citizenship, destination) ==
  /\ citizenship \in DOMAIN visaFreeCountries
  /\ someCountryIncluded(visaFreeCountries[citizenship], destinationCountry(destination))

getVisaRequirements(citizenship, destination) ==
  IF isVisaFree(citizenship, destination)
  THEN [ success |-> TRUE,
         data |-> [ required |-> FALSE, type |-> Undefined, processingTime |-> Undefined,
                    documents |-> visaFreeDocuments, notes |-> mockNote ],
         error |-> Undefined, source |-> "mock" ]
  ELSE [ success |-> TRUE,
         data |-> [ required |-> TRUE, type |-> "Tourist Visa (example)",
                    processingTime |-> "5-15 business days (example)",
                    documents |-> visaRequiredDocuments, notes |-> mockNote ],
         error |-> Undefined, source |-> "mock" ]

(***************************************************************************)
(* Number conversions                                                      *)
(***************************************************************************)
DigitValue(c) == IndexIn(Digits, c) - 1

RECURSIVE parseDigits(_, _)
parseDigits(s, acc) ==
  IF Len(s) = 0 \/ IndexIn(Digits, CharAt(s, 1)) = 0 THEN acc
  ELSE parseDigits(SubSeq(s, 2, Len(s)), 10 * acc + DigitValue(CharAt(s, 1)))

\* parseFloat on the whole-number price strings the model uses ("250", "-20")
parseFloat(s) ==
  IF Len(s) > 0 /\ CharAt(s, 1) = "-"
  THEN 0 - parseDigits(SubSeq(s, 2, Len(s)), 0)
  ELSE parseDigits(s, 0)

\* Math.round(n / d) for n >= 0, d > 0
RoundDiv(n, d) == (2 * n + d) \div (2 * d)

RECURSIVE SumOf(_, _)
SumOf(seq, field) ==
  IF Len(seq) = 0 THEN 0 ELSE seq[1][field] + SumOf(Tail(seq), field)

\* [...new Set(seq)]: first occurrences, in order
RECURSIVE Unique(_)
Unique(seq) ==
  IF Len(seq) = 0 THEN <<>>
  ELSE LET init == Unique(SubSeq(seq, 1, Len(seq) - 1))
           x == seq[Len(seq)]
       IN IF \E i \in 1..Len(init) : init[i] = x THEN init ELSE Append(init, x)

(***************************************************************************)
(* What the outside world can answer                                       *)
(*   kind "throw":  fetch rejects or the body does not parse (message)     *)
(*   kind "status": a non-2xx reply (status, body)                         *)
(*   kind "json":   a 2xx reply with a parsed body                         *)
(***************************************************************************)
MaxPrice == 1
MaxSegments == 2
MaxSections == 2

ThrowResponses ==
  { [kind |-> "throw", message |-> m] : m \in {"fetch failed", ""} }

StatusResponses ==
  { [kind |-> "status", status |-> "503", body |-> "Service Unavailable"] }

\* the geocoder places every text it knows somewhere; the position is its own
PositionOf(q) == [lat |-> Len(q), lng |-> 0 - Len(q)]

GeoResponses(q) ==
  ThrowResponses \cup StatusResponses \cup
  { [kind |-> "json", items |-> <<>>],
    [kind |-> "json", items |-> << [position |-> PositionOf(q), title |-> q] >>] }

SectionOf(k) ==
  [ summary |-> [length |-> 1400 * k + 100, duration |-> 90 * k], 
    transport |-> [mode |-> IF k = 2 THEN "ferry" ELSE "car"] ]

RouteResponses ==
  ThrowResponses \cup StatusResponses \cup
  { [kind |-> "status", status |-> "400", body |-> "No route found"] } \cup
  { [kind |-> "json", routes |-> <<>>] } \cup
  { [kind |-> "json", routes |-> << [sections |-> [k \in 1..n |-> SectionOf(k)]] >>] :
      n \in 0..MaxSections }

TokenResponses ==
  { [kind |-> "throw", message |-> "fetch failed"],
    [kind |-> "status", status |-> "401", body |-> "invalid_client"],
    [kind |-> "json", access_token |-> "tok"],
    [kind |-> "json", access_token |-> Undefined] }

PriceTotals == { ToString(125 * p) : p \in 0..MaxPrice } \cup {"-20"}

OfferSegment(k) ==
  [ departure |-> [iataCode |-> IF k = 1 THEN "JFK" ELSE "KEF"],
    arrival |-> [iataCode |-> IF k = 1 THEN "KEF" ELSE "LHR"],
    carrierCode |-> "FI", duration |-> "PT5H" ]

FlightResponses ==
  ThrowResponses \cup
  { [kind |-> "status", status |-> "400", body |-> "INVALID DATE"] } \cup
  { [kind |-> "json", data |-> <<>>] } \cup
  { [kind |-> "json",
     data |-> << [ price |-> [total |-> t],
                   itineraries |-> << [segments |-> [k \in 1..n |-> OfferSegment(k)]] >> ] >>] :
      t \in PriceTotals, n \in 1..MaxSegments }

(***************************************************************************)
(* Provider wrappers (ApiResult)                                           *)
(***************************************************************************)
ApiFailure(msg, d) == [success |-> FALSE, data |-> d, error |-> msg, source |-> "error"]

getAmadeusToken(configured, resp) ==
  IF ~configured THEN ApiFailure("Amadeus API credentials not configured", Undefined)
  ELSE IF resp.kind = "throw"
  THEN ApiFailure(OrElse(resp.message, "Failed to authenticate with Amadeus API"), Undefined)
  ELSE IF resp.kind = "status"
  THEN ApiFailure("Amadeus auth failed: " \o resp.status \o " - " \o resp.body, Undefined)
  ELSE [success |-> TRUE, data |-> resp.access_token, error |-> Undefined, source |-> "live"]

getCoordinatesForLocation(apiKey, locationQuery, resp) ==
  IF ~apiKey THEN ApiFailure("HERE API key not configured for geocoding.", NoData)
  ELSE IF resp.kind = "throw"
  THEN ApiFailure(OrElse(resp.message,
         "Failed to process HERE Geocoding for \"" \o locationQuery \o "\"."), NoData)
  ELSE IF resp.kind = "status"
  THEN ApiFailure("HERE Geocoding API error (" \o locationQuery \o "): "
                    \o resp.status \o " - " \o resp.body, NoData)
  ELSE IF Len(resp.items) = 0
  THEN ApiFailure("No coordinates found for \"" \o locationQuery \o "\".", NoData)
  ELSE [ success |-> TRUE,
         data |-> [lat |-> resp.items[1].position.lat, lng |-> resp.items[1].position.lng],
         error |-> Undefined, source |-> "live" ]

NoRouteData == [distance |-> 0, duration |-> 0, transportMethods |-> <<"unknown">>]

getHereRoute(apiKey, originCoords, destinationCoords, transportMode, resp) ==
  IF ~apiKey
  THEN ApiFailure("HERE API key not configured. Route data is unavailable.", NoRouteData)
  ELSE IF resp.kind = "throw"
  THEN ApiFailure(OrElse(resp.message, "Failed to process HERE Routing API response."),
                  NoRouteData)
  ELSE IF resp.kind = "status"
  THEN ApiFailure("HERE Routing API error: " \o resp.status \o " - " \o resp.body, NoRouteData)
  ELSE IF Len(resp.routes) = 0 \/ Len(resp.routes[1].sections) = 0
  THEN ApiFailure("No route found by HERE API with the given coordinates.", NoRouteData)
  ELSE LET sections == resp.routes[1].sections
           summaries == [k \in 1..Len(sections) |-> sections[k].summary]
       IN [ success |-> TRUE,
            data |-> [ distance |-> RoundDiv(SumOf(summaries, "length"), 1000),
                       duration |-> RoundDiv(SumOf(summaries, "duration"), 60),
                       transportMethods |->
                         Unique([k \in 1..Len(sections) |-> sections[k].transport.mode]) ],
            error |-> Undefined, source |-> "live" ]

UpperChar(c) ==
  IF IndexIn(LowerLetters, c) # 0 THEN CharAt(UpperLetters, IndexIn(LowerLetters, c)) ELSE c

RECURSIVE toUpperCase(_)
toUpperCase(s) ==
  IF Len(s) = 0 THEN ""
  ELSE UpperChar(CharAt(s, 1)) \o toUpperCase(SubSeq(s, 2, Len(s)))

\* the positions where /\b([A-Z]{3})\b/ matches
directCodeMatches(location) ==
  { i \in 1..(Len(location) - 2) :
      /\ \A j \in i..(i + 2) : IsUpper(CharAt(location, j))
      /\ (i = 1 \/ ~IsWordChar(CharAt(location, i - 1)))
      /\ (i + 2 = Len(location) \/ ~IsWordChar(CharAt(location, i + 3))) }

commonCodes ==
  << <<"new york", "JFK">>, <<"nyc", "JFK">>, <<"new york city", "JFK">>,
     <<"london", "LHR">>, <<"lon", "LHR">>,
     <<"paris", "CDG">>, <<"par", "CDG">>,
     <<"tokyo", "NRT">>, <<"tyo", "NRT">>,
     <<"sydney", "SYD">>,
     <<"dubai", "DXB">>,
     <<"singapore", "SIN">>,
     <<"hong kong", "HKG">>,
     <<"los angeles", "LAX">>,
     <<"chicago", "ORD">>,
     <<"frankfurt", "FRA">>,
     <<"amsterdam", "AMS">>,
     <<"madrid", "MAD">>,
     <<"rome", "FCO">>,
     <<"mumbai", "BOM">>,
     <<"delhi", "DEL">>,
     <<"beijing", "PEK">>,
     <<"shanghai", "PVG">>,
     <<"toronto", "YYZ">>,
     <<"atlanta", "ATL">>,
     <<"vancouver", "YVR">> >>

getAirportCode_tableFirst(location) ==
  LET direct == directCodeMatches(location)
      locationLower == toLowerCase(location)
      hits == { k \in 1..Len(commonCodes) : includes(locationLower, commonCodes[k][1]) }
  IN IF hits # {}
     THEN commonCodes[CHOOSE k \in hits : \A j \in hits : k <= j][2]
     ELSE IF direct # {}
     THEN LET i == CHOOSE i \in direct : \A j \in direct : i <= j
          IN SubSeq(location, i, i + 2)
     ELSE IF Len(location) = 3 /\ location = toUpperCase(location)
     THEN location
     ELSE "XXX"

\* part_003 253-286
getAirportCode(location) ==
  LET direct == directCodeMatches(location)
      locationLower == toLowerCase(location)
      hits == { k \in 1..Len(commonCodes) : includes(locationLower, commonCodes[k][1]) }
  IN IF direct # {}
     THEN LET i == CHOOSE i \in direct : \A j \in direct : i <= j
          IN SubSeq(location, i, i + 2)
     ELSE IF hits # {}
     THEN commonCodes[CHOOSE k \in hits : \A j \in hits : k <= j][2]
     ELSE IF Len(location) = 3 /\ location = toUpperCase(location)
     THEN location
     ELSE "XXX"

NoFlightData == [segments |-> <<>>, totalPrice |-> 0]

noOffersResult_asFailure ==
  [ success |-> FALSE, data |-> NoFlightData,
    error |-> "No flight offers found for the given criteria.", source |-> "error" ]

\* the result for a reply without offers
noOffersResult ==
  [ success |-> TRUE, data |-> NoFlightData,
    error |-> "No flight offers found for the given criteria.", source |-> "live" ]

\* a segment's price is total / number of segments, kept as the exact quotient
segmentsOf(bestOffer) ==
  LET segs == bestOffer.itineraries[1].segments
  IN [ k \in 1..Len(segs) |->
         [ departure |-> segs[k].departure.iataCode,
           arrival |-> segs[k].arrival.iataCode,
           price |-> [num |-> parseFloat(bestOffer.price.total), den |-> Len(segs)],
           duration |-> segs[k].duration,
           airline |-> segs[k].carrierCode ] ]

airportCodeError(origin, destination, originCode, destinationCode) ==
  trim("Could not determine airport code for: "
        \o (IF originCode = "XXX" THEN "origin \"" \o origin \o "\" " ELSE "")
        \o (IF destinationCode = "XXX" THEN "destination \"" \o destination \o "\"" ELSE ""))
    \o ". Flight search cannot proceed."

\* the flight-offers request is issued exactly when this holds
flightRequestIssued(tokenResult, origin, destination) ==
  /\ tokenResult.success
  /\ tokenResult.data # Undefined /\ tokenResult.data # ""
  /\ getAirportCode(origin) # "XXX"
  /\ getAirportCode(destination) # "XXX"

searchFlights(credentials, origin, destination, tokenResp, resp) ==
  LET tokenResult == getAmadeusToken(credentials, tokenResp)
      originCode == getAirportCode(origin)
      destinationCode == getAirportCode(destination)
  IN IF ~tokenResult.success \/ tokenResult.data = Undefined \/ tokenResult.data = ""
     THEN ApiFailure(OrElse(tokenResult.error, "Amadeus token acquisition failed."),
                     NoFlightData)
     ELSE IF originCode = "XXX" \/ destinationCode = "XXX"
     THEN ApiFailure(airportCodeError(origin, destination, originCode, destinationCode),
                     NoFlightData)
     ELSE IF resp.kind = "throw"
     THEN ApiFailure(OrElse(resp.message, "Amadeus Flight API processing error."),
                     NoFlightData)
     ELSE IF resp.kind = "status"
     THEN ApiFailure("Amadeus Flight API error: " \o resp.status \o " - " \o resp.body,
                     NoFlightData)
     ELSE IF Len(resp.data) = 0
     THEN noOffersResult
     ELSE [ success |-> TRUE,
            data |-> [ segments |-> segmentsOf(resp.data[1]),
                       totalPrice |-> parseFloat(resp.data[1].price.total) ],
            error |-> Undefined, source |-> "live" ]

(***************************************************************************)
(* The generateTravelPlan action and the routes store                      *)
(***************************************************************************)
VARIABLES
  env,                  \* which credentials are configured (process.env)
  authUserId,           \* getAuthUserId(ctx): a user id, or Undefined
  routes,               \* the "routes" table, in insertion order
  routesAtStart,        \* the table as the invocation found it
  pc,                   \* position of the handler
  args,                 \* the PlanRequest
  departureGeoResult, destinationGeoResult,
  planStatusMessage, finalRouteData, finalFlightData, finalVisaRequirements,
  finalAiResponse, finalTotalEstimatedCost,
  caught,               \* message of the exception the catch clause received
  log,                  \* the calls made so far, wrappers and outgoing requests
  outcome,              \* "pending", "returned" or "raised"
  result,               \* the value returned to the caller
  formData,             \* TravelPlanner: the form's fields
  travelPlan,           \* TravelPlanner: the plan on display, or null
  isLoading, isRegenerating,
  pending,              \* TravelPlanner: the handleGenerateSubmit calls awaiting the action
  toast,                \* TravelPlanner: the last toast shown
  apiKey,               \* GoogleMap: VITE_Maps_API_KEY is set
  mapMounted,           \* GoogleMap: the component is mounted
  mapDeps,              \* GoogleMap: the props departure and destination
  mapIsLoading, mapError,
  effectIsActive,       \* GoogleMap: effectIsActive.current
  mapRefAttached,       \* GoogleMap: mapRef.current is the rendered container
  innerHTML,            \* GoogleMap: what the container holds
  effectRuns            \* GoogleMap: the runs of the effect, oldest first

\* the state of the TravelPlanner component
planner == << formData, travelPlan, isLoading, isRegenerating, pending, toast >>

\* the state of the backend
backend ==
  << env, authUserId, routes, routesAtStart, pc, args,
     departureGeoResult, destinationGeoResult,
     planStatusMessage, finalRouteData, finalFlightData, finalVisaRequirements,
     finalAiResponse, finalTotalEstimatedCost, caught, log, outcome, result >>

\* the state of the GoogleMap component
gmap ==
  << apiKey, mapMounted, mapDeps, mapIsLoading, mapError, effectIsActive,
     mapRefAttached, innerHTML, effectRuns >>

vars == << backend, planner, gmap >>

\* the error state of a map that has no error
noError == "<null>"

\* part_001 48-54: the GoogleMap component at its first render, before its effect
MapMounted ==
  /\ apiKey = TRUE
  /\ mapMounted = TRUE
  /\ mapDeps = [departure |-> "New York", destination |-> "London, UK"]
  /\ mapIsLoading = TRUE
  /\ mapError = noError
  /\ effectIsActive = FALSE
  /\ mapRefAttached = FALSE
  /\ innerHTML = ""
  /\ effectRuns = <<>>

\* the value of a state that holds no plan
null == [null |-> TRUE]

\* TravelPlanner.tsx 61-67
initialFormData ==
  [ citizenship |-> "", residencyVisa |-> "", departureLocation |-> "",
    destinationLocation |-> "", transportMode |-> "car" ]

\* TravelPlanner.tsx 149-152: the component as it mounts
PlannerMounted ==
  /\ formData = initialFormData
  /\ travelPlan = null
  /\ isLoading = FALSE
  /\ isRegenerating = FALSE
  /\ pending = <<>>
  /\ toast = Undefined

locals ==
  << departureGeoResult, destinationGeoResult,
     planStatusMessage, finalRouteData, finalFlightData, finalVisaRequirements,
     finalAiResponse, finalTotalEstimatedCost, caught >>

Requests ==
  { [ citizenship |-> "American", residencyVisa |-> "None",
      departureLocation |-> "New York", destinationLocation |-> "London, UK",
      transportMode |-> "car" ],
    [ citizenship |-> "American", residencyVisa |-> "None",
      departureLocation |-> "JFK", destinationLocation |-> "Lagos, Nigeria",
      transportMode |-> "pedestrian" ],
    [ citizenship |-> "Nigerian", residencyVisa |-> "Schengen visa",
      departureLocation |-> "Kano", destinationLocation |-> "Paris, France",
      transportMode |-> "truck" ],
    [ citizenship |-> "British", residencyVisa |-> "None",
      departureLocation |-> "London Heathrow (LHR)", destinationLocation |-> "Toronto, Canada",
      transportMode |-> "bicycle" ] }

NoRequest ==
  [ citizenship |-> "", residencyVisa |-> "", departureLocation |-> "",
    destinationLocation |-> "", transportMode |-> "" ]

\* a document written by the first version of generateTravelPlan (its fallback branch)
LegacyRoute ==
  [ _id |-> 1, userId |-> "user0",
    citizenship |-> "German", residencyVisa |-> "None",
    departureLocation |-> "Berlin", destinationLocation |-> "Accra, Ghana",
    transportMode |-> Undefined,
    aiResponse |-> "Unable to generate AI travel plan at this time. Please check with relevant authorities for travel requirements.",
    routeData |-> [ distance |-> 0, duration |-> 0, transportMethods |-> <<"car">>,
                    borderCrossings |-> <<>> ],
    flightData |-> [ segments |-> <<>>, totalPrice |-> 0 ],
    visaRequirements |-> [ required |-> TRUE,
                           documents |-> <<"Valid passport", "Visa application">> ],
    totalEstimatedCost |-> 500,
    planStatusMessage |-> Undefined ]

\* an exception out of ctx.runAction itself rather than a result of the wrapper
ActionRejections == { [kind |-> "rejects", message |-> "Request timed out"] }

CompletionResponses ==
  { [kind |-> "json", content |-> "Here is your personalised travel plan."],
    [kind |-> "json", content |-> Undefined],
    [kind |-> "throw", message |-> "Connection error."] }

Init ==
  /\ PlannerMounted
  /\ MapMounted
  /\ env \in [hereKey : BOOLEAN, amadeus : BOOLEAN, openaiKey : BOOLEAN]
  /\ authUserId \in {"user1", Undefined}
  /\ routes \in {<<>>, <<LegacyRoute>>}
  /\ routesAtStart = routes
  /\ pc = "idle"
  /\ args = NoRequest
  /\ departureGeoResult = NoData
  /\ destinationGeoResult = NoData
  /\ planStatusMessage = ""
  /\ finalRouteData = NoData
  /\ finalFlightData = NoData
  /\ finalVisaRequirements = NoData
  /\ finalAiResponse = Undefined
  /\ finalTotalEstimatedCost = 0
  /\ caught = Undefined
  /\ log = <<>>
  /\ outcome = "pending"
  /\ result = NoData

\* new OpenAI({apiKey}): the client refuses to be built without a key
openaiConstructorThrows(e) == ~e.openaiKey

\* routes.ts 131-142: client construction and the initial values of the locals
Invoke ==
  /\ pc = "idle"
  /\ \E req \in Requests : args' = req
  /\ IF openaiConstructorThrows(env)
     THEN /\ pc' = "failed"
          /\ outcome' = "raised"
          /\ UNCHANGED finalTotalEstimatedCost
     ELSE /\ pc' = "geocode_departure"
          /\ outcome' = "pending"
          /\ finalTotalEstimatedCost' = 500
  /\ UNCHANGED << gmap, planner, env, authUserId, routes, routesAtStart, departureGeoResult,
                  destinationGeoResult, planStatusMessage, finalRouteData, finalFlightData,
                  finalVisaRequirements, finalAiResponse, caught, log, result >>

\* an exception inside the try block: control moves to the catch clause
Throw(message) ==
  /\ pc' = "catch"
  /\ caught' = message

\* a log entry: a wrapper with what it returned (or how runAction rejected),
\* or an outgoing request with the reply it got
Entry(name, reply) == [call |-> name, reply |-> reply]

\* what a wrapper that reads HERE_API_KEY adds to the log
hereCalls(name, returned, request, resp) ==
  <<Entry(name, returned)>> \o (IF env.hereKey THEN <<Entry(request, resp)>> ELSE <<>>)

\* routes.ts 147-149
GeocodeDeparture ==
  /\ pc = "geocode_departure"
  /\ \E resp \in GeoResponses(args.departureLocation) \cup ActionRejections :
       IF resp.kind = "rejects"
       THEN /\ Throw(resp.message)
            /\ log' = Append(log, Entry("getCoordinatesForLocation", resp))
            /\ UNCHANGED departureGeoResult
       ELSE /\ departureGeoResult' =
                 getCoordinatesForLocation(env.hereKey, args.departureLocation, resp)
            /\ log' = log \o hereCalls("getCoordinatesForLocation", departureGeoResult',
                                        "GET geocode", resp)
            /\ pc' = "geocode_destination"
            /\ UNCHANGED caught
  /\ UNCHANGED << gmap, planner, env, authUserId, routes, routesAtStart, args, destinationGeoResult,
                  planStatusMessage, finalRouteData, finalFlightData,
                  finalVisaRequirements, finalAiResponse, finalTotalEstimatedCost,
                  outcome, result >>

bothGeocoded_departureOnly(dep, dest) ==
  dep.success /\ dep.data # NoData

bothGeocoded(dep, dest) ==
  /\ dep.success /\ dep.data # NoData
  /\ dest.success /\ dest.data # NoData

geoErrorMsg_bothSides(dep, dest) ==
  "Geocoding failed: "
    \o "Departure: " \o OrElse(dep.error, "Unknown error") \o ". "
    \o "Destination: " \o OrElse(dest.error, "Unknown error") \o "."

\* routes.ts 172-174
geoErrorMsg(dep, dest) ==
  "Geocoding failed: "
    \o (IF ~dep.success
        THEN "Departure: " \o OrElse(dep.error, "Unknown error") \o ". " ELSE "")
    \o (IF ~dest.success
        THEN "Destination: " \o OrElse(dest.error, "Unknown error") \o "." ELSE "")

errorRoute_unknownMode(transportMode, message) ==
  [ distance |-> 0, duration |-> 0, transportMethods |-> <<"unknown">>,
    source |-> "error", error |-> message, borderCrossings |-> <<>> ]

\* routes.ts 169, 176, 232: the route recorded when there is none
errorRoute(transportMode, message) ==
  [ distance |-> 0, duration |-> 0, transportMethods |-> <<transportMode>>,
    source |-> "error", error |-> message, borderCrossings |-> <<>> ]

afterGeocoding_abort(dep, dest) ==
  IF bothGeocoded(dep, dest) THEN "route" ELSE "catch"

\* routes.ts 154 and 171: the router is asked only when both geocodes succeeded;
\* otherwise the handler goes on to the flight search
afterGeocoding(dep, dest) ==
  IF bothGeocoded(dep, dest) THEN "route" ELSE "flights"

\* routes.ts 150-155 and, when a geocode failed, 171-177
GeocodeDestination ==
  /\ pc = "geocode_destination"
  /\ \E resp \in GeoResponses(args.destinationLocation) \cup ActionRejections :
       IF resp.kind = "rejects"
       THEN /\ Throw(resp.message)
            /\ log' = Append(log, Entry("getCoordinatesForLocation", resp))
            /\ UNCHANGED << destinationGeoResult, planStatusMessage, finalRouteData >>
       ELSE LET dest == getCoordinatesForLocation(env.hereKey, args.destinationLocation, resp)
                msg == geoErrorMsg(departureGeoResult, dest)
            IN /\ destinationGeoResult' = dest
               /\ log' = log \o hereCalls("getCoordinatesForLocation", dest,
                                           "GET geocode", resp)
               /\ UNCHANGED caught
               /\ pc' = afterGeocoding(departureGeoResult, dest)
               /\ IF bothGeocoded(departureGeoResult, dest)
                  THEN UNCHANGED << planStatusMessage, finalRouteData >>
                  ELSE /\ planStatusMessage' = planStatusMessage \o msg
                       /\ finalRouteData' =
                            errorRoute(args.transportMode,
                                       OrElse(trim(msg), "Geocoding for routing failed."))
  /\ UNCHANGED << gmap, planner, env, authUserId, routes, routesAtStart, args, departureGeoResult,
                  finalFlightData, finalVisaRequirements, finalAiResponse,
                  finalTotalEstimatedCost, outcome, result >>

routeErrorMsg_providerText(hereRouteResult, transportMode) ==
  OrElse(hereRouteResult.error, "Could not fetch live route data.")

\* routes.ts 164-167
routeErrorMsg(hereRouteResult, transportMode) ==
  LET m == OrElse(hereRouteResult.error, "Could not fetch live route data.")
  IN IF includes(m, "No route found")
     THEN "Destination may be inaccessible by the selected mode of transport ("
            \o transportMode \o "). Route details N/A."
     ELSE m

\* routes.ts 156-170
Route ==
  /\ pc = "route"
  /\ \E resp \in RouteResponses \cup ActionRejections :
       IF resp.kind = "rejects"
       THEN /\ Throw(resp.message)
            /\ log' = Append(log, Entry("getHereRoute", resp))
            /\ UNCHANGED << planStatusMessage, finalRouteData >>
       ELSE LET hereRouteResult ==
                  getHereRoute(env.hereKey, departureGeoResult.data,
                               destinationGeoResult.data, args.transportMode, resp)
                msg == routeErrorMsg(hereRouteResult, args.transportMode)
            IN /\ log' = log \o hereCalls("getHereRoute", hereRouteResult, "GET routes", resp)
               /\ pc' = "flights"
               /\ UNCHANGED caught
               /\ IF hereRouteResult.success /\ hereRouteResult.data # NoData
                  THEN /\ finalRouteData' =
                            [ distance |-> hereRouteResult.data.distance,
                              duration |-> hereRouteResult.data.duration,
                              transportMethods |-> hereRouteResult.data.transportMethods,
                              source |-> hereRouteResult.source,
                              error |-> hereRouteResult.error,
                              borderCrossings |-> <<>> ]
                       /\ UNCHANGED planStatusMessage
                  ELSE /\ planStatusMessage' =
                            planStatusMessage \o "Route information error: " \o msg \o " "
                       /\ finalRouteData' = errorRoute(args.transportMode, msg)
  /\ UNCHANGED << gmap, planner, env, authUserId, routes, routesAtStart, args, departureGeoResult,
                  destinationGeoResult, finalFlightData, finalVisaRequirements,
                  finalAiResponse, finalTotalEstimatedCost, outcome, result >>

\* what searchFlights adds to the log: the token wrapper, its request, the offers request
flightCalls(flightResult, tokenResp, resp) ==
  LET tokenResult == getAmadeusToken(env.amadeus, tokenResp)
  IN << Entry("searchFlights", flightResult), Entry("getAmadeusToken", tokenResult) >>
       \o (IF env.amadeus THEN <<Entry("POST oauth2/token", tokenResp)>> ELSE <<>>)
       \o (IF flightRequestIssued(tokenResult, args.departureLocation,
                                  args.destinationLocation)
           THEN <<Entry("GET flight-offers", resp)>> ELSE <<>>)

\* routes.ts 179-194
Flights ==
  /\ pc = "flights"
  /\ \/ \E rej \in ActionRejections :
          /\ Throw(rej.message)
          /\ log' = Append(log, Entry("searchFlights", rej))
          /\ UNCHANGED << planStatusMessage, finalFlightData >>
     \/ \E tokenResp \in TokenResponses, resp \in FlightResponses :
          LET flightResult ==
                searchFlights(env.amadeus, args.departureLocation,
                              args.destinationLocation, tokenResp, resp)
          IN /\ log' = log \o flightCalls(flightResult, tokenResp, resp)
             /\ pc' = "visa"
             /\ UNCHANGED caught
             /\ IF flightResult.success /\ flightResult.data # NoData
                THEN /\ finalFlightData' =
                          [ segments |-> flightResult.data.segments,
                            totalPrice |-> flightResult.data.totalPrice,
                            source |-> flightResult.source,
                            error |-> flightResult.error ]
                     /\ planStatusMessage' =
                          IF OrElse(flightResult.error, "") # "" /\ flightResult.source = "live"
                          THEN planStatusMessage \o "Flight information note: "
                                 \o flightResult.error \o " "
                          ELSE planStatusMessage
                ELSE /\ planStatusMessage' =
                          planStatusMessage \o "Flight information error: "
                            \o OrElse(flightResult.error, "Could not fetch live flight data.")
                            \o " "
                     /\ finalFlightData' =
                          [ segments |-> <<>>, totalPrice |-> 0, source |-> "error",
                            error |-> OrElse(flightResult.error, "Unknown flight error") ]
  /\ UNCHANGED << gmap, planner, env, authUserId, routes, routesAtStart, args, departureGeoResult,
                  destinationGeoResult, finalRouteData, finalVisaRequirements,
                  finalAiResponse, finalTotalEstimatedCost, outcome, result >>

baseMiscCost == 500

totalEstimatedCost_anyLivePrice(flightData) ==
  IF flightData.source = "live"
  THEN baseMiscCost + flightData.totalPrice
  ELSE baseMiscCost

\* routes.ts 205-211: the cost, and the note it may add to the status message
totalEstimatedCost(flightData) ==
  IF flightData.source = "live" /\ flightData.totalPrice > 0
  THEN baseMiscCost + flightData.totalPrice
  ELSE baseMiscCost

costNote_plainElse(flightData) ==
  IF flightData.source = "live" /\ flightData.totalPrice > 0 THEN ""
  ELSE "Total cost is an estimate as live flight prices were unavailable. "

costNote(flightData) ==
  IF flightData.source = "live" /\ flightData.totalPrice > 0 THEN ""
  ELSE IF flightData.source # "live"
  THEN "Total cost is an estimate as live flight prices were unavailable. "
  ELSE ""

\* routes.ts 196-213
Visa ==
  /\ pc = "visa"
  /\ \/ \E rej \in ActionRejections :
          /\ Throw(rej.message)
          /\ log' = Append(log, Entry("getVisaRequirements", rej))
          /\ UNCHANGED << planStatusMessage, finalVisaRequirements, finalTotalEstimatedCost >>
     \/ LET visaResult == getVisaRequirements(args.citizenship, args.destinationLocation)
            visaNote == IF visaResult.source = "mock" /\ OrElse(visaResult.data.notes, "") # ""
                        THEN visaResult.data.notes \o " " ELSE ""
        IN /\ finalVisaRequirements' =
                [ required |-> visaResult.data.required,
                  type |-> visaResult.data.type,
                  processingTime |-> visaResult.data.processingTime,
                  documents |-> visaResult.data.documents,
                  notes |-> visaResult.data.notes,
                  source |-> visaResult.source,
                  error |-> visaResult.error ]
           /\ finalTotalEstimatedCost' = totalEstimatedCost(finalFlightData)
           /\ planStatusMessage' =
                trim(planStatusMessage \o visaNote \o costNote(finalFlightData))
           /\ log' = Append(log, Entry("getVisaRequirements", visaResult))
           /\ pc' = "narrative"
           /\ UNCHANGED caught
  /\ UNCHANGED << gmap, planner, env, authUserId, routes, routesAtStart, args, departureGeoResult,
                  destinationGeoResult, finalRouteData, finalFlightData,
                  finalAiResponse, outcome, result >>

\* routes.ts 214-225
Narrative ==
  /\ pc = "narrative"
  /\ \E resp \in CompletionResponses :
       /\ log' = Append(log, Entry("POST chat/completions", resp))
       /\ IF resp.kind = "throw"
          THEN /\ Throw(resp.message)
               /\ UNCHANGED finalAiResponse
          ELSE /\ finalAiResponse' = OrElse(resp.content, "AI could not generate a response.")
               /\ pc' = "save"
               /\ UNCHANGED caught
  /\ UNCHANGED << gmap, planner, env, authUserId, routes, routesAtStart, args, departureGeoResult,
                  destinationGeoResult, planStatusMessage, finalRouteData, finalFlightData,
                  finalVisaRequirements, finalTotalEstimatedCost, outcome, result >>

OrDefault_refill(value, placeholder) == placeholder

\* routes.ts 232-234: value ?? placeholder
OrDefault(value, placeholder) == IF value = NoData THEN placeholder ELSE value

errorFlight_fallback ==
  [ segments |-> <<>>, totalPrice |-> 0, source |-> "fallback",
    error |-> "Overall plan generation failed" ]

\* routes.ts 233
errorFlight == 
  [ segments |-> <<>>, totalPrice |-> 0, source |-> "error",
    error |-> "Overall plan generation failed" ]

errorVisa_untagged ==
  [ required |-> TRUE, type |-> Undefined, processingTime |-> Undefined,
    documents |-> <<"Valid passport">>, notes |-> "Visa info unavailable due to error.",
    source |-> Undefined, error |-> "Overall plan generation failed" ]

errorVisa ==
  [ required |-> TRUE, type |-> Undefined, processingTime |-> Undefined,
    documents |-> <<"Valid passport">>, notes |-> "Visa info unavailable due to error.",
    source |-> "error", error |-> "Overall plan generation failed" ]

\* routes.ts 235
costAfterCatch(cost, flightData) ==
  IF cost = 500 /\ (flightData.source # "live" \/ flightData.totalPrice = 0)
  THEN 500 ELSE cost

catchStatusMessage_noticeOnly(message, accumulated) ==
  trim("Overall plan generation failed: " \o message \o ". ")

\* routes.ts 229: the notice, then what had been accumulated, trimmed
catchStatusMessage(message, accumulated) ==
  trim("Overall plan generation failed: " \o message \o ". " \o accumulated)

\* routes.ts 227-236
Catch ==
  /\ pc = "catch"
  /\ planStatusMessage' = catchStatusMessage(caught, planStatusMessage)
  /\ finalAiResponse' = "There was a critical issue generating the travel plan..."
  /\ finalRouteData' =
       OrDefault(finalRouteData,
                 errorRoute(args.transportMode, "Overall plan generation failed"))
  /\ finalFlightData' = OrDefault(finalFlightData, errorFlight)
  /\ finalVisaRequirements' = OrDefault(finalVisaRequirements, errorVisa)
  /\ finalTotalEstimatedCost' =
       costAfterCatch(finalTotalEstimatedCost, OrDefault(finalFlightData, errorFlight))
  /\ pc' = "save"
  /\ UNCHANGED << gmap, planner, env, authUserId, routes, routesAtStart, args, departureGeoResult,
                  destinationGeoResult, caught, log, outcome, result >>

routeDocument_unowned(id, userId, a) ==
  [ _id |-> id, userId |-> Undefined,
    citizenship |-> a.citizenship, residencyVisa |-> a.residencyVisa,
    departureLocation |-> a.departureLocation,
    destinationLocation |-> a.destinationLocation,
    transportMode |-> a.transportMode,
    aiResponse |-> a.aiResponse, routeData |-> a.routeData,
    flightData |-> a.flightData, visaRequirements |-> a.visaRequirements,
    totalEstimatedCost |-> a.totalEstimatedCost,
    planStatusMessage |-> a.planStatusMessage ]

\* routes.ts 96-109: the document ctx.db.insert writes
routeDocument(id, userId, a) ==
  [ _id |-> id, userId |-> userId,
    citizenship |-> a.citizenship, residencyVisa |-> a.residencyVisa,
    departureLocation |-> a.departureLocation,
    destinationLocation |-> a.destinationLocation,
    transportMode |-> a.transportMode,
    aiResponse |-> a.aiResponse, routeData |-> a.routeData,
    flightData |-> a.flightData, visaRequirements |-> a.visaRequirements,
    totalEstimatedCost |-> a.totalEstimatedCost,
    planStatusMessage |-> a.planStatusMessage ]

saveRouteArgs_baselineCost ==
  [ citizenship |-> args.citizenship, residencyVisa |-> args.residencyVisa,
    departureLocation |-> args.departureLocation,
    destinationLocation |-> args.destinationLocation,
    transportMode |-> args.transportMode,
    aiResponse |-> finalAiResponse, routeData |-> finalRouteData,
    flightData |-> finalFlightData, visaRequirements |-> finalVisaRequirements,
    totalEstimatedCost |-> baseMiscCost,
    planStatusMessage |-> OrElse(planStatusMessage, Undefined) ]

\* routes.ts 238-250: the arguments handed to saveRoute
saveRouteArgs ==
  [ citizenship |-> args.citizenship, residencyVisa |-> args.residencyVisa,
    departureLocation |-> args.departureLocation,
    destinationLocation |-> args.destinationLocation,
    transportMode |-> args.transportMode,
    aiResponse |-> finalAiResponse, routeData |-> finalRouteData,
    flightData |-> finalFlightData, visaRequirements |-> finalVisaRequirements,
    totalEstimatedCost |-> finalTotalEstimatedCost,
    planStatusMessage |-> OrElse(planStatusMessage, Undefined) ]

\* routes.ts 252-260
returnValue(routeId) ==
  [ routeId |-> routeId,
    aiResponse |-> finalAiResponse, routeData |-> finalRouteData,
    flightData |-> finalFlightData, visaRequirements |-> finalVisaRequirements,
    totalEstimatedCost |-> finalTotalEstimatedCost,
    planStatusMessage |-> OrElse(planStatusMessage, Undefined) ]

notAuthenticated_never(userId) == FALSE

\* routes.ts 92-93: getAuthUserId gave no user
notAuthenticated(userId) == userId = Undefined

\* routes.ts 238-260 with saveRoute, 91-111
SaveRoute ==
  /\ pc = "save"
  /\ IF notAuthenticated(authUserId)
     THEN /\ pc' = "failed"
          /\ outcome' = "raised"
          /\ log' = Append(log, Entry("saveRoute", 
                                      [kind |-> "rejects", message |-> "User not authenticated"]))
          /\ UNCHANGED << routes, result >>
     ELSE LET routeId == Len(routes) + 1
          IN /\ routes' = Append(routes, routeDocument(routeId, authUserId, saveRouteArgs))
             /\ log' = Append(log, Entry("saveRoute", [routeId |-> routeId]))
             /\ result' = returnValue(routeId)
             /\ outcome' = "returned"
             /\ pc' = "done"
  /\ UNCHANGED << gmap, planner, env, authUserId, routesAtStart, args, locals >>

Next ==
  \/ Invoke
  \/ GeocodeDeparture
  \/ GeocodeDestination
  \/ Route
  \/ Flights
  \/ Visa
  \/ Narrative
  \/ Catch
  \/ SaveRoute

Spec == Init /\ [][Next]_vars

(***************************************************************************)
(* The visa lookup on its own: every citizenship with every destination    *)
(***************************************************************************)
Citizenships == {"American", "British", "German", "Canadian", "Nigerian", "american"}

Destinations ==
  { "London, UK", "Lagos, Nigeria", "UK,", "France, ", "Paris, France ", "Tokyo",
    "Kyiv, Ukraine", "Berlin,GERMANY", "United Kingdom", "Seoul, South Korea",
    "Japan, Lagos", "Sydney, Australia" }

InitVisa ==
  /\ PlannerMounted
  /\ MapMounted
  /\ env = [hereKey |-> TRUE, amadeus |-> TRUE, openaiKey |-> TRUE]
  /\ authUserId = "user1"
  /\ routes = <<>>
  /\ routesAtStart = <<>>
  /\ pc = "lookup"
  /\ \E c \in Citizenships, d \in Destinations :
       args = [NoRequest EXCEPT !.citizenship = c, !.destinationLocation = d]
  /\ departureGeoResult = NoData
  /\ destinationGeoResult = NoData
  /\ planStatusMessage = ""
  /\ finalRouteData = NoData
  /\ finalFlightData = NoData
  /\ finalVisaRequirements = NoData
  /\ finalAiResponse = Undefined
  /\ finalTotalEstimatedCost = 0
  /\ caught = Undefined
  /\ log = <<>>
  /\ outcome = "pending"
  /\ result = NoData

\* one call of the getVisaRequirements action
VisaLookup ==
  /\ pc = "lookup"
  /\ result' = getVisaRequirements(args.citizenship, args.destinationLocation)
  /\ outcome' = "returned"
  /\ pc' = "looked_up"
  /\ UNCHANGED << gmap, planner, env, authUserId, routes, routesAtStart, args, locals, log >>

NextVisa == VisaLookup

SpecVisa == InitVisa /\ [][NextVisa]_vars

(***************************************************************************)
(* The provider wrappers on their own: each called once, with every          *)
(* credential setting and every reply of its provider                        *)
(***************************************************************************)
Locations ==
  { "New York", "JFK", "Paris (ORY)", "Kano", "Lagos, Nigeria", "UK,", "123", "XXX" }

InitWrappers ==
  /\ PlannerMounted
  /\ MapMounted
  /\ env \in [hereKey : BOOLEAN, amadeus : BOOLEAN, openaiKey : {TRUE}]
  /\ authUserId = "user1"
  /\ routes = <<>>
  /\ routesAtStart = <<>>
  /\ pc = "wrapper"
  /\ \E o \in Locations, d \in Locations :
       args = [NoRequest EXCEPT !.departureLocation = o, !.destinationLocation = d,
                                !.transportMode = "car"]
  /\ departureGeoResult = NoData
  /\ destinationGeoResult = NoData
  /\ planStatusMessage = ""
  /\ finalRouteData = NoData
  /\ finalFlightData = NoData
  /\ finalVisaRequirements = NoData
  /\ finalAiResponse = Undefined
  /\ finalTotalEstimatedCost = 0
  /\ caught = Undefined
  /\ log = <<>>
  /\ outcome = "pending"
  /\ result = NoData

\* part_003 79-111
CallGetAmadeusToken ==
  /\ pc = "wrapper"
  /\ \E resp \in TokenResponses :
       /\ result' = getAmadeusToken(env.amadeus, resp)
       /\ log' = <<Entry("getAmadeusToken", result')>>
                   \o (IF env.amadeus THEN <<Entry("POST oauth2/token", resp)>> ELSE <<>>)
  /\ outcome' = "returned"
  /\ pc' = "wrapped"
  /\ UNCHANGED << gmap, planner, env, authUserId, routes, routesAtStart, args, locals >>

\* part_003 114-151
CallGetCoordinatesForLocation ==
  /\ pc = "wrapper"
  /\ \E resp \in GeoResponses(args.departureLocation) :
       /\ result' = getCoordinatesForLocation(env.hereKey, args.departureLocation, resp)
       /\ log' = hereCalls("getCoordinatesForLocation", result', "GET geocode", resp)
  /\ outcome' = "returned"
  /\ pc' = "wrapped"
  /\ UNCHANGED << gmap, planner, env, authUserId, routes, routesAtStart, args, locals >>

\* part_003 155-234
CallGetHereRoute ==
  /\ pc = "wrapper"
  /\ \E resp \in RouteResponses :
       /\ result' = getHereRoute(env.hereKey, PositionOf(args.departureLocation),
                                 PositionOf(args.destinationLocation),
                                 args.transportMode, resp)
       /\ log' = hereCalls("getHereRoute", result', "GET routes", resp)
  /\ outcome' = "returned"
  /\ pc' = "wrapped"
  /\ UNCHANGED << gmap, planner, env, authUserId, routes, routesAtStart, args, locals >>

\* the originLocationCode and destinationLocationCode of the flight-offers request
flightQuery(origin, destination) ==
  [ originLocationCode |-> getAirportCode(origin),
    destinationLocationCode |-> getAirportCode(destination) ]

\* part_003 237-335
CallSearchFlights ==
  /\ pc = "wrapper"
  /\ \E tokenResp \in TokenResponses, resp \in FlightResponses :
       /\ result' = searchFlights(env.amadeus, args.departureLocation,
                                  args.destinationLocation, tokenResp, resp)
       /\ log' = flightCalls(result', tokenResp, resp)
                   \o (IF flightRequestIssued(getAmadeusToken(env.amadeus, tokenResp),
                                              args.departureLocation,
                                              args.destinationLocation)
                       THEN <<Entry("flight-offers query",
                                    flightQuery(args.departureLocation,
                                                args.destinationLocation))>>
                       ELSE <<>>)
  /\ outcome' = "returned"
  /\ pc' = "wrapped"
  /\ UNCHANGED << gmap, planner, env, authUserId, routes, routesAtStart, args, locals >>

NextWrappers ==
  \/ CallGetAmadeusToken
  \/ CallGetCoordinatesForLocation
  \/ CallGetHereRoute
  \/ CallSearchFlights

SpecWrappers == InitWrappers /\ [][NextWrappers]_vars

(***************************************************************************)
(* The routes table over time: documents of earlier runs, one more           *)
(* generation, and the addMissingFlightDataSource migration                  *)
(***************************************************************************)
\* a document written by the first version of generateTravelPlan on its normal
\* path, with the stand-in flight its searchFlights made up when there were no offers
LegacyFlightRoute ==
  [ _id |-> 2, userId |-> "user0",
    citizenship |-> "German", residencyVisa |-> "None",
    departureLocation |-> "New York", destinationLocation |-> "Paris, France",
    transportMode |-> Undefined,
    aiResponse |-> "Here is your personalised travel plan.",
    routeData |-> [ distance |-> 5837, duration |-> 440, transportMethods |-> <<"car">>,
                    borderCrossings |-> <<>> ],
    flightData |-> [ segments |-> << [ departure |-> "JFK", arrival |-> "CDG",
                                       price |-> [num |-> 450, den |-> 1],
                                       duration |-> "PT8H30M", airline |-> "AA" ] >>,
                     totalPrice |-> 620 ],
    visaRequirements |-> [ required |-> FALSE,
                           documents |-> visaFreeDocuments ],
    totalEstimatedCost |-> 1120,
    planStatusMessage |-> Undefined ]

\* a document the current generateTravelPlan wrote in an earlier run, for the
\* first of the Requests, when only the flight provider was configured
EarlierPlan ==
  routeDocument(2, "user1",
    [ citizenship |-> "American", residencyVisa |-> "None",
      departureLocation |-> "New York", destinationLocation |-> "London, UK",
      transportMode |-> "car",
      aiResponse |-> "Here is your personalised travel plan.",
      routeData |->
        errorRoute("car",
          "Geocoding failed: Departure: HERE API key not configured for geocoding.. "
            \o "Destination: HERE API key not configured for geocoding.."),
      flightData |->
        [ segments |-> << [ departure |-> "JFK", arrival |-> "KEF",
                            price |-> [num |-> 125, den |-> 1],
                            duration |-> "PT5H", airline |-> "FI" ] >>,
          totalPrice |-> 125, source |-> "live", error |-> Undefined ],
      visaRequirements |->
        [ required |-> FALSE, type |-> Undefined, processingTime |-> Undefined,
          documents |-> visaFreeDocuments, notes |-> mockNote,
          source |-> "mock", error |-> Undefined ],
      totalEstimatedCost |-> 625,
      planStatusMessage |->
        "Geocoding failed: Departure: HERE API key not configured for geocoding.. "
          \o "Destination: HERE API key not configured for geocoding.."
          \o mockNote ])

InitStore ==
  /\ PlannerMounted
  /\ MapMounted
  /\ env = [hereKey |-> TRUE, amadeus |-> FALSE, openaiKey |-> TRUE]
  /\ authUserId = "user1"
  /\ routes \in { <<>>, <<LegacyRoute>>, <<LegacyRoute, LegacyFlightRoute>>,
                   <<LegacyRoute, EarlierPlan>> }
  /\ routesAtStart = routes
  /\ pc = "idle"
  /\ args = NoRequest
  /\ departureGeoResult = NoData
  /\ destinationGeoResult = NoData
  /\ planStatusMessage = ""
  /\ finalRouteData = NoData
  /\ finalFlightData = NoData
  /\ finalVisaRequirements = NoData
  /\ finalAiResponse = Undefined
  /\ finalTotalEstimatedCost = 0
  /\ caught = Undefined
  /\ log = <<>>
  /\ outcome = "pending"
  /\ result = NoData

\* migrations.ts: flightData is an object whose source is undefined
needsFlightSource_any(doc) ==
  doc.flightData # NoData

needsFlightSource(doc) ==
  /\ doc.flightData # NoData
  /\ ("source" \notin DOMAIN doc.flightData \/ doc.flightData.source = Undefined)

\* migrations.ts: an empty flight with price 0 is taken for the result of an error
looksLikeFallback(flightData) ==
  flightData.segments = <<>> /\ flightData.totalPrice = 0

defaultSource_alwaysFallback(flightData) == "fallback"

defaultSource(flightData) ==
  IF looksLikeFallback(flightData) THEN "error" ELSE "fallback"

defaultError(flightData) ==
  IF looksLikeFallback(flightData)
  THEN "Source field added during migration; data appears to be a fallback due to a previous error or no data."
  ELSE "Source field added during migration; original source unknown."

\* migrations.ts: { ...currentFlightData, source, error: currentFlightData.error ?? defaultError }
migratedFlightData(flightData) ==
  [ f \in DOMAIN flightData \cup {"source", "error"} |->
      IF f = "source" THEN defaultSource(flightData)
      ELSE IF f = "error"
      THEN IF "error" \in DOMAIN flightData /\ flightData.error # Undefined
           THEN flightData.error ELSE defaultError(flightData)
      ELSE flightData[f] ]

\* migrations.ts: the patch, applied where it is needed
migrateDocument(doc) ==
  IF needsFlightSource(doc)
  THEN [doc EXCEPT !.flightData = migratedFlightData(doc.flightData)]
  ELSE doc

\* the size of the batch the migration reads when it is given no document
BatchSize == 100

\* the document ids a caller may hand to the migration, one of them of no document
DocumentIds == 1..4

\* migrations.ts: addMissingFlightDataSource({docIdToMigrate})
MigrateDocument ==
  /\ \E docIdToMigrate \in DocumentIds :
       routes' = [ i \in 1..Len(routes) |->
                     IF routes[i]._id = docIdToMigrate
                     THEN migrateDocument(routes[i]) ELSE routes[i] ]
  /\ UNCHANGED << gmap, planner, env, authUserId, routesAtStart, pc, args, locals, log, outcome, result >>

\* migrations.ts: addMissingFlightDataSource({}), over ctx.db.query("routes").take(100)
MigrateBatch ==
  /\ routes' = [ i \in 1..Len(routes) |->
                   IF i <= BatchSize THEN migrateDocument(routes[i]) ELSE routes[i] ]
  /\ UNCHANGED << gmap, planner, env, authUserId, routesAtStart, pc, args, locals, log, outcome, result >>

NextStore ==
  \/ Invoke
  \/ GeocodeDeparture
  \/ GeocodeDestination
  \/ Route
  \/ Flights
  \/ Visa
  \/ Narrative
  \/ Catch
  \/ SaveRoute
  \/ MigrateDocument
  \/ MigrateBatch

SpecStore == InitStore /\ [][NextStore]_vars

(***************************************************************************)
(* The migration over a table of the first version that outgrew one batch  *)
(***************************************************************************)
\* the most documents the table starts with: two more than one batch of 100
MaxBacklog == 102

\* the i-th document of a table the first version filled, in creation order
BacklogDocument(i) ==
  IF i % 2 = 1 THEN [LegacyRoute EXCEPT !._id = i]
  ELSE [LegacyFlightRoute EXCEPT !._id = i]

InitBacklog ==
  /\ PlannerMounted
  /\ MapMounted
  /\ env = [hereKey |-> TRUE, amadeus |-> FALSE, openaiKey |-> TRUE]
  /\ authUserId = "user1"
  /\ \E n \in 0..MaxBacklog : routes = [ i \in 1..n |-> BacklogDocument(i) ]
  /\ routesAtStart = routes
  /\ pc = "idle"
  /\ args = NoRequest
  /\ departureGeoResult = NoData
  /\ destinationGeoResult = NoData
  /\ planStatusMessage = ""
  /\ finalRouteData = NoData
  /\ finalFlightData = NoData
  /\ finalVisaRequirements = NoData
  /\ finalAiResponse = Undefined
  /\ finalTotalEstimatedCost = 0
  /\ caught = Undefined
  /\ log = <<>>
  /\ outcome = "pending"
  /\ result = NoData

NextBacklog ==
  \/ MigrateDocument
  \/ MigrateBatch

SpecBacklog == InitBacklog /\ [][NextBacklog]_vars

\* the operator runs the batch again for as long as a run changes something
SpecBacklogFair == SpecBacklog /\ WF_vars(MigrateBatch)

(***************************************************************************)
(* The TravelPlanner component                                             *)
(***************************************************************************)
\* what the user can put into a field of the form: nothing, or one choice
FieldValues ==
  [ citizenship |-> {"", "American"}, residencyVisa |-> {"", "Work Visa"},
    departureLocation |-> {"", "New York"}, destinationLocation |-> {"", "London, UK"},
    transportMode |-> {"car", "truck"} ]

\* what generateTravelPlan can resolve with: two plans stored under two ids
ActionResults ==
  { [ aiResponse |-> EarlierPlan.aiResponse, routeId |-> id,
      routeData |-> EarlierPlan.routeData, flightData |-> EarlierPlan.flightData,
      visaRequirements |-> EarlierPlan.visaRequirements,
      totalEstimatedCost |-> EarlierPlan.totalEstimatedCost,
      planStatusMessage |-> EarlierPlan.planStatusMessage ] : id \in {2, 3} }

\* what generateTravelPlan can reject with: a message, or none
ActionErrors == { "User not authenticated", "" }

InitPlanner ==
  /\ PlannerMounted
  /\ MapMounted
  /\ env = [hereKey |-> TRUE, amadeus |-> TRUE, openaiKey |-> TRUE]
  /\ authUserId = "user1"
  /\ routes = <<>>
  /\ routesAtStart = routes
  /\ pc = "idle"
  /\ args = NoRequest
  /\ departureGeoResult = NoData
  /\ destinationGeoResult = NoData
  /\ planStatusMessage = ""
  /\ finalRouteData = NoData
  /\ finalFlightData = NoData
  /\ finalVisaRequirements = NoData
  /\ finalAiResponse = Undefined
  /\ finalTotalEstimatedCost = 0
  /\ caught = Undefined
  /\ log = <<>>
  /\ outcome = "pending"
  /\ result = NoData

\* TravelPlanner.tsx 273: the plan is rendered, the form is not
planDisplayed == travelPlan # null

\* TravelPlanner.tsx 487-564: every field of the form is marked required
requiredFieldsFilled(data) == \A name \in DOMAIN data : data[name] # ""

submitDisabled_never == FALSE

\* TravelPlanner.tsx 576
submitDisabled == isLoading \/ isRegenerating

\* TravelPlanner.tsx 435
regenerateDisabled == isRegenerating \/ isLoading

\* TravelPlanner.tsx 156-161
handleChange ==
  /\ ~planDisplayed
  /\ \E name \in DOMAIN FieldValues : \E value \in FieldValues[name] :
       /\ formData[name] # value
       /\ formData' = [formData EXCEPT ![name] = value]
  /\ UNCHANGED << gmap, backend, travelPlan, isLoading, isRegenerating, pending, toast >>

\* TravelPlanner.tsx 163-180: handleGenerateSubmit up to the await
handleGenerateSubmit(currentFormData) ==
  IF \E name \in DOMAIN currentFormData : currentFormData[name] = ""
  THEN /\ toast' = "Please fill out all fields, including mode of transport."
       /\ UNCHANGED << gmap, backend, formData, travelPlan, isLoading, isRegenerating, pending >>
  ELSE /\ isLoading' = (travelPlan = null)
       /\ isRegenerating' = (travelPlan # null)
       /\ pending' = Append(pending, [ currentFormData |-> currentFormData,
                                       travelPlan |-> travelPlan ])
       /\ UNCHANGED << gmap, backend, formData, travelPlan, toast >>

\* TravelPlanner.tsx 207-210, from the form's submit button (574-577)
handleSubmit ==
  /\ ~planDisplayed
  /\ ~submitDisabled
  /\ requiredFieldsFilled(formData)
  /\ handleGenerateSubmit(formData)

\* TravelPlanner.tsx 212-214, from the Regenerate button (433-436)
handleRegenerate ==
  /\ planDisplayed
  /\ ~regenerateDisabled
  /\ handleGenerateSubmit(formData)

\* TravelPlanner.tsx 445: the New Plan button, never disabled
NewPlan ==
  /\ planDisplayed
  /\ travelPlan' = null
  /\ formData' = initialFormData
  /\ UNCHANGED << gmap, backend, isLoading, isRegenerating, pending, toast >>

\* the calls that stay in flight when call i settles
Without(calls, i) ==
  [ j \in 1..(Len(calls) - 1) |-> IF j < i THEN calls[j] ELSE calls[j + 1] ]

\* TravelPlanner.tsx 192
successMessage(planAtClick) ==
  IF planAtClick # null THEN "Travel plan regenerated!"
  ELSE "Travel plan generated successfully!"

\* TravelPlanner.tsx 180-196, 201-204: the action resolved
ActionResolves ==
  /\ \E i \in 1..Len(pending) : \E value \in ActionResults :
       /\ travelPlan' =
            [ formData |-> pending[i].currentFormData,
              aiResponse |-> value.aiResponse, routeId |-> value.routeId,
              routeData |-> value.routeData, flightData |-> value.flightData,
              visaRequirements |-> value.visaRequirements,
              totalEstimatedCost |-> value.totalEstimatedCost,
              planStatusMessage |-> value.planStatusMessage ]
       /\ toast' = successMessage(pending[i].travelPlan)
       /\ pending' = Without(pending, i)
  /\ isLoading' = FALSE
  /\ isRegenerating' = FALSE
  /\ UNCHANGED << gmap, backend, formData >>

\* TravelPlanner.tsx 198-204: the action rejected
ActionRejects ==
  /\ \E i \in 1..Len(pending) : \E message \in ActionErrors :
       /\ toast' = OrElse(message, "Failed to generate travel plan. Please try again.")
       /\ pending' = Without(pending, i)
  /\ isLoading' = FALSE
  /\ isRegenerating' = FALSE
  /\ UNCHANGED << gmap, backend, formData, travelPlan >>

NextPlanner ==
  \/ handleChange
  \/ handleSubmit
  \/ handleRegenerate
  \/ NewPlan
  \/ ActionResolves
  \/ ActionRejects

SpecPlanner == InitPlanner /\ [][NextPlanner]_vars

(***************************************************************************)
(* The GoogleMap component                                                 *)
(***************************************************************************)
\* the props the component is given: two routes, and one without a departure
MapRoutes ==
  { [departure |-> "New York", destination |-> "London, UK"],
    [departure |-> "Kano", destination |-> "Paris, France"],
    [departure |-> "", destination |-> "London, UK"] }

\* the most runs of the effect in one behaviour: the mount and two changes of props
MaxEffectRuns == 3

InitMap ==
  /\ PlannerMounted
  /\ apiKey \in BOOLEAN
  /\ mapMounted = TRUE
  /\ mapDeps \in MapRoutes
  /\ mapIsLoading = TRUE
  /\ mapError = noError
  /\ effectIsActive = FALSE
  /\ mapRefAttached = FALSE
  /\ innerHTML = ""
  /\ effectRuns = <<>>
  /\ env = [hereKey |-> TRUE, amadeus |-> TRUE, openaiKey |-> TRUE]
  /\ authUserId = "user1"
  /\ routes = <<>>
  /\ routesAtStart = routes
  /\ pc = "idle"
  /\ args = NoRequest
  /\ departureGeoResult = NoData
  /\ destinationGeoResult = NoData
  /\ planStatusMessage = ""
  /\ finalRouteData = NoData
  /\ finalFlightData = NoData
  /\ finalVisaRequirements = NoData
  /\ finalAiResponse = Undefined
  /\ finalTotalEstimatedCost = 0
  /\ caught = Undefined
  /\ log = <<>>
  /\ outcome = "pending"
  /\ result = NoData

\* part_001 255-302: which element the render returns, and what mapRef holds
\* after it: the container is in the tree only when the component is neither
\* loading nor showing the error overlay; a container put back is a new, empty one
render(loading, err, attached, html) ==
  LET shown == /\ mapMounted
               /\ ~loading
               /\ ~(err # noError /\ (~attached \/ html = ""))
  IN [ attached |-> shown, html |-> IF shown /\ attached THEN html ELSE "" ]

\* state updates of one step are rendered together, and only when they change the state
commit(loading, err, attached, html) ==
  IF loading = mapIsLoading /\ err = mapError
  THEN [ attached |-> attached, html |-> html ]
  ELSE render(loading, err, attached, html)

\* what one step leaves behind: the state it set and the container after the render
Leaves(loading, err, attached, html) ==
  /\ mapIsLoading' = loading
  /\ mapError' = err
  /\ mapRefAttached' = commit(loading, err, attached, html).attached
  /\ innerHTML' = commit(loading, err, attached, html).html

\* part_001 247-250: the cleanup of the last run, if that run returned one
cleanupRuns(runs) ==
  [ k \in 1..Len(runs) |->
      IF k = Len(runs) /\ runs[k].cleanup THEN [runs[k] EXCEPT !.cleanedUp = TRUE]
      ELSE runs[k] ]

EffectRun(deps, at, cleanup) ==
  [ deps |-> deps, pc |-> at, cleanup |-> cleanup, cleanedUp |-> FALSE ]

\* part_001 56-86 and initMap 87-137, 245-251: the effect, on mount or when the
\* props change, after the cleanup of the run before it, up to the first await
useEffect ==
  /\ mapMounted
  /\ Len(effectRuns) < MaxEffectRuns
  /\ \E deps \in MapRoutes :
       /\ effectRuns = <<>> => deps = mapDeps
       /\ effectRuns # <<>> => deps # mapDeps
       /\ mapDeps' = deps
       /\ effectIsActive' = TRUE
       /\ LET seen == IF effectRuns = <<>>
                      THEN [ attached |-> mapRefAttached, html |-> innerHTML ]
                      ELSE render(mapIsLoading, mapError, mapRefAttached, innerHTML)
          IN IF ~seen.attached
             THEN /\ Leaves(FALSE, mapError, seen.attached, seen.html)
                  /\ effectRuns' = Append(cleanupRuns(effectRuns), EffectRun(deps, "done", FALSE))
             ELSE IF deps.departure = "" \/ deps.destination = ""
             THEN /\ Leaves(FALSE, "Departure or destination location is missing.", TRUE,
                            "Departure or destination location is missing.")
                  /\ effectRuns' = Append(cleanupRuns(effectRuns), EffectRun(deps, "done", FALSE))
             ELSE IF ~apiKey
             THEN /\ Leaves(FALSE, "Google Maps API key not configured. Displaying basic overview.",
                            TRUE, "Map display requires API key.")
                  /\ effectRuns' = Append(cleanupRuns(effectRuns), EffectRun(deps, "done", TRUE))
             ELSE /\ Leaves(TRUE, noError, TRUE, "")
                  /\ effectRuns' = Append(cleanupRuns(effectRuns), EffectRun(deps, "loading", TRUE))
  /\ UNCHANGED << backend, planner, apiKey, mapMounted >>

\* the component leaves the tree: the cleanup of the last run, the container gone
unmount ==
  /\ mapMounted
  /\ effectRuns # <<>>
  /\ mapMounted' = FALSE
  /\ effectIsActive' = IF effectRuns[Len(effectRuns)].cleanup THEN FALSE ELSE effectIsActive
  /\ effectRuns' = cleanupRuns(effectRuns)
  /\ mapRefAttached' = FALSE
  /\ innerHTML' = ""
  /\ UNCHANGED << backend, planner, apiKey, mapDeps, mapIsLoading, mapError >>

\* run k moves on
At(k, at) == effectRuns' = [effectRuns EXCEPT ![k].pc = at]

\* part_001 143-177, 237-242: initMap after loader.load() resolved
ApiLoaded ==
  /\ \E k \in 1..Len(effectRuns) :
       /\ effectRuns[k].pc = "loading"
       /\ IF ~effectIsActive
          THEN /\ At(k, "done")
               /\ UNCHANGED << mapIsLoading, mapError, mapRefAttached, innerHTML >>
          ELSE IF ~mapRefAttached
          THEN /\ At(k, "done")
               /\ Leaves(FALSE, "Map container disappeared after API load.",
                         mapRefAttached, innerHTML)
          ELSE /\ At(k, "geocoding")
               /\ innerHTML' = ""
               /\ UNCHANGED << mapIsLoading, mapError, mapRefAttached >>
  /\ UNCHANGED << backend, planner, apiKey, mapMounted, mapDeps, effectIsActive >>

\* part_001 137-143, 232-242: the import or loader.load() rejected
ApiLoadFails ==
  /\ \E k \in 1..Len(effectRuns) :
       /\ effectRuns[k].pc = "loading"
       /\ At(k, "done")
       /\ IF effectIsActive
          THEN Leaves(FALSE, "Failed to load map. Check console for full details.",
                      mapRefAttached, innerHTML)
          ELSE UNCHANGED << mapIsLoading, mapError, mapRefAttached, innerHTML >>
  /\ UNCHANGED << backend, planner, apiKey, mapMounted, mapDeps, effectIsActive >>

\* part_001 161-230, 232-242: the geocoder called back for both addresses, and
\* initMap went on to the map, the markers and the directions request
Geocoded ==
  /\ \E k \in 1..Len(effectRuns) : \E ok \in BOOLEAN :
       /\ effectRuns[k].pc = "geocoding"
       /\ IF ~effectIsActive
          THEN /\ At(k, "done")
               /\ UNCHANGED << mapIsLoading, mapError, mapRefAttached, innerHTML >>
          ELSE IF ~ok
          THEN /\ At(k, "done")
               /\ Leaves(FALSE, "Geocoding failed for \"" \o effectRuns[k].deps.departure
                                  \o "\": ZERO_RESULTS", mapRefAttached, innerHTML)
          ELSE IF ~mapRefAttached
          THEN /\ At(k, "done")
               /\ Leaves(FALSE, mapError, mapRefAttached, innerHTML)
          ELSE /\ At(k, "directions")
               /\ Leaves(FALSE, mapError, TRUE,
                         "map " \o effectRuns[k].deps.departure \o " - "
                           \o effectRuns[k].deps.destination)
  /\ UNCHANGED << backend, planner, apiKey, mapMounted, mapDeps, effectIsActive >>

\* part_001 217-230: the callback of directionsService.route
DirectionsCallback ==
  /\ \E k \in 1..Len(effectRuns) : \E ok \in BOOLEAN :
       /\ effectRuns[k].pc = "directions"
       /\ At(k, "done")
       /\ IF ~effectIsActive
          THEN UNCHANGED << mapIsLoading, mapError, mapRefAttached, innerHTML >>
          ELSE IF ok
          THEN Leaves(mapIsLoading, noError, mapRefAttached,
                      IF mapRefAttached
                      THEN "route " \o effectRuns[k].deps.departure \o " - "
                             \o effectRuns[k].deps.destination
                      ELSE innerHTML)
          ELSE Leaves(mapIsLoading,
                      "Could not display route (NOT_FOUND). Check locations or API permissions.",
                      mapRefAttached, innerHTML)
  /\ UNCHANGED << backend, planner, apiKey, mapMounted, mapDeps, effectIsActive >>

NextMap ==
  \/ useEffect
  \/ unmount
  \/ ApiLoaded
  \/ ApiLoadFails
  \/ Geocoded
  \/ DirectionsCallback

SpecMap == InitMap /\ [][NextMap]_vars

(***************************************************************************)
(* Properties                                                              *)
(***************************************************************************)
Returned == pc = "done" /\ outcome = "returned"

\* the plan came back through the catch clause
ViaCatch == Returned /\ caught # Undefined

LastDocument == routes[Len(routes)]

\* the reply logged for a call, if the call was made
Replies(name) == { log[i].reply : i \in { j \in 1..Len(log) : log[j].call = name } }

CountCalls(name) == Cardinality({ j \in 1..Len(log) : log[j].call = name })

\* C1: generateTravelPlan returns a plan and never raises to its caller, whatever
\* the providers do and whichever credentials are missing, as long as the
\* saveRoute call succeeds: with an authenticated caller, for whom saveRoute
\* inserts, no invocation raises.
NeverRaisesUnlessSaveFails ==
  authUserId # Undefined => outcome # "raised"

SourceTags == {"live", "fallback", "mock", "error"}

IsCompletePlan(plan) ==
  /\ plan.routeData # NoData /\ plan.routeData.source \in SourceTags
  /\ plan.flightData # NoData /\ plan.flightData.source \in SourceTags
  /\ plan.visaRequirements # NoData /\ plan.visaRequirements.source \in SourceTags
  /\ plan.aiResponse # Undefined /\ Len(plan.aiResponse) > 0
  /\ plan.totalEstimatedCost \in Int

\* C2: every returned plan is structurally complete: route, flight and visa are
\* defined and tagged with a source, the narrative is a non-empty string and the
\* cost is a number, on the normal path and on the catch path.
PlanIsComplete == Returned => IsCompletePlan(result)

\* a plan returned through the catch clause before any sub-result was computed
PlanIsCompleteWitness ==
  /\ ViaCatch
  /\ CountCalls("getHereRoute") = 0
  /\ CountCalls("searchFlights") = 0
  /\ result.visaRequirements.source = "error"

\* C3: an invocation that returns has inserted exactly one document, by one
\* saveRoute call, owned by the authenticated caller; until then the table is
\* as the invocation found it.
ExactlyOneRecord ==
  /\ Returned =>
       /\ Len(routes) = Len(routesAtStart) + 1
       /\ SubSeq(routes, 1, Len(routesAtStart)) = routesAtStart
       /\ CountCalls("saveRoute") = 1
       /\ LastDocument._id = result.routeId
       /\ LastDocument.userId = authUserId
       /\ authUserId # Undefined
  /\ ~Returned => routes = routesAtStart

ExactlyOneRecordWitness ==
  /\ ViaCatch
  /\ Len(routesAtStart) = 1
  /\ Len(routes) = 2

GeocodeFailed(r) == r # NoData /\ ~r.success

\* C4: when the geocoder fails or finds nothing for the departure or for the
\* destination, the returned route is tagged error and has distance 0.
UnresolvableLocationGivesErrorRoute ==
  (Returned /\ (GeocodeFailed(departureGeoResult) \/ GeocodeFailed(destinationGeoResult)))
    => /\ result.routeData.source = "error"
       /\ result.routeData.distance = 0

\* the destination had no match while the departure was found
UnresolvableLocationWitness ==
  /\ Returned
  /\ departureGeoResult # NoData /\ departureGeoResult.success
  /\ [kind |-> "json", items |-> <<>>] \in Replies("GET geocode")
  /\ GeocodeFailed(destinationGeoResult)
  /\ result.routeData.source = "error"

ZeroOffers == [kind |-> "json", data |-> <<>>] \in Replies("GET flight-offers")

\* C5: when the flight provider answers with zero offers the returned flight is
\* tagged live, with total price 0 and no segments.
ZeroOffersIsLive ==
  (Returned /\ ZeroOffers)
    => /\ result.flightData.source = "live"
       /\ result.flightData.totalPrice = 0
       /\ result.flightData.segments = <<>>

ZeroOffersWitness ==
  /\ Returned /\ ZeroOffers
  /\ result.flightData.source = "live"
  /\ caught = Undefined

\* C6: the cost returned and the cost persisted are at least 500.
CostAtLeastBaseline ==
  Returned => /\ result.totalEstimatedCost >= 500
              /\ LastDocument.totalEstimatedCost >= 500

\* a live offer whose price does not count
CostAtLeastBaselineWitness ==
  /\ Returned
  /\ result.flightData.source = "live"
  /\ result.flightData.segments # <<>>
  /\ result.flightData.totalPrice <= 0
  /\ result.totalEstimatedCost = 500

NoException == Returned /\ caught = Undefined

CostIsEstimatedNote == "Total cost is an estimate as live flight prices were unavailable."

HasCostNote(plan) == includes(plan.planStatusMessage, CostIsEstimatedNote)

LivePrice(flight) == flight.source = "live" /\ flight.totalPrice > 0

\* C7 as stated: without an exception the cost is 500 plus the flight price
\* exactly when the flight is live with a price above 0, and in every other case
\* the cost is 500 and the status message carries the cost-is-estimated note.
CostNoteInEveryOtherCase ==
  NoException =>
    /\ LivePrice(result.flightData) =>
         result.totalEstimatedCost = 500 + result.flightData.totalPrice
    /\ ~LivePrice(result.flightData) =>
         /\ result.totalEstimatedCost = 500
         /\ HasCostNote(result)

\* C7, amended: without an exception the cost is 500 plus the flight price
\* exactly when the flight is live with a price above 0 and is 500 otherwise; the
\* cost-is-estimated note is in the status message exactly when the flight is
\* not live, so a live flight without a countable price leaves the cost at 500
\* and adds no note.
CostNoteOnlyWhenNotLive ==
  NoException =>
    /\ LivePrice(result.flightData) =>
         result.totalEstimatedCost = 500 + result.flightData.totalPrice
    /\ ~LivePrice(result.flightData) => result.totalEstimatedCost = 500
    /\ HasCostNote(result) <=> result.flightData.source # "live"

\* zero offers: live, cost 500, no note
CostNoteOnlyWhenNotLiveWitness ==
  /\ NoException
  /\ ZeroOffers
  /\ result.flightData.source = "live"
  /\ result.totalEstimatedCost = 500
  /\ ~HasCostNote(result)

\* C8: a plan returned through the catch clause has the baseline cost 500.
CatchKeepsBaselineCost ==
  ViaCatch => result.totalEstimatedCost = 500

TrailingToken(destination) == splitPop(destination)

\* some entry of the citizenship's list is a case-insensitive substring of text
EntryWithin(citizenship, text) ==
  /\ citizenship \in DOMAIN visaFreeCountries
  /\ \E k \in 1..Len(visaFreeCountries[citizenship]) :
       includes(toLowerCase(text), toLowerCase(visaFreeCountries[citizenship][k]))

LookedUp == pc = "looked_up"

VisaRequiredAnswer(r) ==
  /\ r.data.required = TRUE
  /\ Len(r.data.documents) > 0
  /\ r.source = "mock"

MatchedText(destination) ==
  IF trim(TrailingToken(destination)) = "" THEN destination
  ELSE TrailingToken(destination)

BothGeocodeResults == departureGeoResult # NoData /\ destinationGeoResult # NoData

\* C11: when the geocoder fails for the destination only, the returned route is
\* tagged error and the status message carries the destination fragment with
\* the geocoder's error and no departure fragment; in general the geocoding
\* part of the message names exactly the sides whose geocoding failed.
GeocodingFragmentNamesFailedSides ==
  (Returned /\ BothGeocodeResults) =>
    /\ (departureGeoResult.success /\ ~destinationGeoResult.success) =>
         /\ result.routeData.source = "error"
         /\ includes(result.routeData.error,
                     "Destination: " \o destinationGeoResult.error)
         /\ includes(result.planStatusMessage,
                     "Geocoding failed: Destination: " \o destinationGeoResult.error)
         /\ ~includes(result.planStatusMessage, "Departure: ")
    /\ includes(result.planStatusMessage, "Departure: ")
         <=> ~departureGeoResult.success
    /\ includes(result.planStatusMessage, "Destination: ")
         <=> ~destinationGeoResult.success
    /\ includes(result.planStatusMessage, "Geocoding failed: ")
         <=> (~departureGeoResult.success \/ ~destinationGeoResult.success)

\* the destination alone failed to geocode and the plan came back on the normal path
GeocodingFragmentWitness ==
  /\ Returned /\ caught = Undefined
  /\ departureGeoResult # NoData /\ departureGeoResult.success
  /\ GeocodeFailed(destinationGeoResult)
  /\ includes(result.planStatusMessage, "Destination: ")
  /\ ~includes(result.planStatusMessage, "Departure: ")

\* the failures getHereRoute returned to the handler
RouterFailures ==
  { r \in Replies("getHereRoute") : "success" \in DOMAIN r /\ ~r.success }

\* the router answered, with no route or with a route of no sections
NoRouteFound ==
  \E r \in Replies("GET routes") :
    /\ r.kind = "json"
    /\ (Len(r.routes) = 0 \/ Len(r.routes[1].sections) = 0)

DedicatedNoRouteMessage ==
  "Destination may be inaccessible by the selected mode of transport ("
    \o args.transportMode \o "). Route details N/A."

RouteErrorIs(text) ==
  /\ result.routeData.source = "error"
  /\ result.routeData.error = text
  /\ includes(result.planStatusMessage, "Route information error: " \o text)

\* C12 as stated: when the router reports that no route was found the route
\* error and the route fragment of the status message are the dedicated message
\* naming the transport mode, not the provider's text; every other router
\* failure keeps the provider's error text.
OnlyNoRouteGetsDedicatedMessage ==
  Returned =>
    \A r \in RouterFailures :
      IF NoRouteFound
      THEN RouteErrorIs(DedicatedNoRouteMessage) /\ r.error # DedicatedNoRouteMessage
      ELSE RouteErrorIs(r.error)

\* C12, amended: when the router reports that no route was found the route
\* error and the route fragment of the status message are the dedicated message
\* naming the transport mode, not the provider's text; so are they for any
\* other router failure whose error text contains "No route found" (an HTTP
\* error with that body); every remaining router failure keeps the provider's
\* error text.
NoRouteTextGetsDedicatedMessage ==
  Returned =>
    \A r \in RouterFailures :
      /\ NoRouteFound =>
           RouteErrorIs(DedicatedNoRouteMessage) /\ r.error # DedicatedNoRouteMessage
      /\ IF includes(r.error, "No route found")
         THEN RouteErrorIs(DedicatedNoRouteMessage)
         ELSE RouteErrorIs(r.error)

\* the router found no route for the two geocoded places
NoRouteTextWitness ==
  /\ Returned /\ NoRouteFound
  /\ RouterFailures # {}
  /\ result.routeData.error = DedicatedNoRouteMessage

RequestFields ==
  {"citizenship", "residencyVisa", "departureLocation", "destinationLocation",
   "transportMode"}

PlanFields ==
  {"aiResponse", "routeData", "flightData", "visaRequirements", "totalEstimatedCost",
   "planStatusMessage"}

CallsOf(name) == { j \in 1..Len(log) : log[j].call = name }

\* the reply is an ApiResult reporting success with data
SucceededWithData(reply) ==
  /\ "success" \in DOMAIN reply
  /\ reply.success
  /\ reply.data # NoData

\* C14: within one generation the router is asked at most once, only after
\* both geocoding calls have come back, and only when both reported success
\* with coordinates; when either geocoding failed the router is never asked.
RouterOnlyAfterBothGeocoded ==
  /\ CountCalls("getHereRoute") <= 1
  /\ CountCalls("GET routes") <= 1
  /\ \A j \in CallsOf("getHereRoute") \cup CallsOf("GET routes") :
       /\ Cardinality({ i \in CallsOf("getCoordinatesForLocation") : i < j }) = 2
       /\ \A i \in CallsOf("getCoordinatesForLocation") : SucceededWithData(log[i].reply)
       /\ bothGeocoded(departureGeoResult, destinationGeoResult)
  /\ (\E i \in CallsOf("getCoordinatesForLocation") : ~SucceededWithData(log[i].reply))
       => CountCalls("getHereRoute") = 0 /\ CountCalls("GET routes") = 0

\* the router was asked once, after two successful geocodings
RouterOnlyAfterBothGeocodedWitness ==
  /\ Returned
  /\ CountCalls("getCoordinatesForLocation") = 2
  /\ CountCalls("getHereRoute") = 1
  /\ CountCalls("GET routes") = 1
  /\ result.routeData.source = "live"

\* no request went out to the geocoder or the router, and the route is the error value
HereUnused ==
  /\ CountCalls("GET geocode") = 0
  /\ CountCalls("GET routes") = 0
  /\ Returned => result.routeData.source = "error"

\* no request went out for a token or for flight offers, and the flight is the error value
AmadeusUnused ==
  /\ CountCalls("POST oauth2/token") = 0
  /\ CountCalls("GET flight-offers") = 0
  /\ Returned => result.flightData.source = "error"

\* C15: for each external provider (geocoding and routing, flight token and
\* search, narrative generator), when its credential is not configured no
\* request to it is attempted and the field it feeds takes its error value,
\* without any exception reaching the caller.
NoRequestWithoutCredential ==
  /\ ~env.hereKey => HereUnused
  /\ ~env.amadeus => AmadeusUnused
  /\ ~env.openaiKey => CountCalls("POST chat/completions") = 0
  /\ (authUserId # Undefined /\ ~(env.hereKey /\ env.amadeus /\ env.openaiKey))
       => outcome # "raised"

\* searchFlights was called and has returned
FlightsSearched == pc = "wrapped" /\ CountCalls("searchFlights") = 1

FlightOffersRequested == CountCalls("GET flight-offers") > 0

TokenObtained ==
  \E r \in Replies("getAmadeusToken") : r.success /\ r.data # Undefined /\ r.data # ""

\* the text holds a token of three uppercase letters
HasCodeToken(location) == directCodeMatches(location) # {}

\* a city of the static table is a substring of the lower-cased text
InCityTable(location) ==
  \E k \in 1..Len(commonCodes) : includes(toLowerCase(location), commonCodes[k][1])

ResolvesAsDescribed(location) == HasCodeToken(location) \/ InCityTable(location)

\* three characters none of which is a lower-case letter
IsBareCode(location) == Len(location) = 3 /\ location = toUpperCase(location)

FlightFailureWithoutData ==
  /\ ~result.success
  /\ result.source = "error"
  /\ result.data.segments = <<>>
  /\ result.data.totalPrice = 0

\* C16 as stated: searchFlights asks for flight offers only when origin and
\* destination both resolve to an airport code, by a three-letter uppercase
\* token in the text or else by a substring match in the city table; when
\* either does not, no request is made and a failure with no segments and
\* price 0 is returned.
RequestOnlyForTokenOrTable ==
  FlightsSearched =>
    /\ FlightOffersRequested =>
         /\ ResolvesAsDescribed(args.departureLocation)
         /\ ResolvesAsDescribed(args.destinationLocation)
    /\ (~ResolvesAsDescribed(args.departureLocation)
          \/ ~ResolvesAsDescribed(args.destinationLocation))
         => ~FlightOffersRequested /\ FlightFailureWithoutData

ResolvesInCode(location) ==
  ResolvesAsDescribed(location) \/ IsBareCode(location)

\* C16, amended: searchFlights asks for flight offers only when origin and
\* destination both resolve to an airport code: by a three-letter uppercase
\* token in the text first, else by a substring match in the city table, else
\* by the text itself when it is exactly three characters long and holds no
\* lower-case letter; when either does not resolve, no request is made and a
\* failure with no segments and price 0 is returned; no request ever carries
\* the placeholder code.
RequestOnlyForResolvedCodes ==
  FlightsSearched =>
    /\ FlightOffersRequested =>
         /\ ResolvesInCode(args.departureLocation)
         /\ ResolvesInCode(args.destinationLocation)
    /\ (~ResolvesInCode(args.departureLocation)
          \/ ~ResolvesInCode(args.destinationLocation))
         => ~FlightOffersRequested /\ FlightFailureWithoutData
    /\ \A q \in Replies("flight-offers query") :
         /\ q.originLocationCode # "XXX" /\ q.destinationLocationCode # "XXX"
         /\ args.departureLocation = "Paris (ORY)" => q.originLocationCode = "ORY"
         /\ args.departureLocation = "New York" => q.originLocationCode = "JFK"
         /\ args.destinationLocation = "UK," => q.destinationLocationCode = "UK,"

\* a request went out for a text with a token and a city of the table
RequestOnlyForResolvedCodesWitness ==
  /\ FlightsSearched /\ FlightOffersRequested
  /\ args.departureLocation = "Paris (ORY)"
  /\ args.destinationLocation = "New York"
  /\ result.success

WrapperNames ==
  {"getAmadeusToken", "getCoordinatesForLocation", "getHereRoute", "searchFlights"}

\* the results the object-valued wrappers returned
ObjectResults ==
  UNION { Replies(name) : name \in WrapperNames \ {"getAmadeusToken"} }

FailureIsReported(r) ==
  ~r.success => (r.error # Undefined /\ r.error # "" /\ r.source = "error")

\* the provider answered with a non-success status, or the request failed
ProviderFailed ==
  \E j \in 1..Len(log) :
    /\ log[j].call \in {"POST oauth2/token", "GET geocode", "GET routes", "GET flight-offers"}
    /\ log[j].reply.kind \in {"throw", "status"}

\* C17: every provider wrapper returns a result: a non-success status, a
\* missing credential and a network or parse failure all give success = false
\* with a non-empty error and source error, and success = true always comes
\* with defined data.
WrappersReturnResults ==
  pc = "wrapped" =>
    /\ \A r \in ObjectResults :
         FailureIsReported(r) /\ (r.success => r.data # NoData)
    /\ \A r \in Replies("getAmadeusToken") :
         FailureIsReported(r) /\ (r.success => r.data # Undefined)
    /\ ProviderFailed => ~result.success
    /\ (CountCalls("getAmadeusToken") = 1 /\ ~env.amadeus) => ~result.success
    /\ (CountCalls("getAmadeusToken") = 0 /\ ~env.hereKey) => ~result.success

\* the current saveRoute requires the transport mode; the first version had none
WrittenByGenerateTravelPlan(doc) == doc.transportMode # Undefined

SaveRejected ==
  \E r \in Replies("saveRoute") : "kind" \in DOMAIN r /\ r.kind = "rejects"

\* C19: when saveRoute throws (the caller is not authenticated) the invocation
\* fails to its caller with nothing returned, and the routes table is as the
\* invocation found it.
PersistenceFailureRaises ==
  /\ SaveRejected =>
       /\ pc = "failed" /\ outcome = "raised"
       /\ result = NoData
       /\ routes = routesAtStart
  /\ (authUserId = Undefined /\ pc \in {"done", "failed"}) =>
       /\ outcome = "raised"
       /\ routes = routesAtStart

\* every provider answered, the plan was complete, and saveRoute refused it
PersistenceFailureWitness ==
  /\ SaveRejected
  /\ outcome = "raised"
  /\ caught = Undefined
  /\ finalFlightData # NoData /\ finalFlightData.source = "live"
  /\ routes = <<LegacyRoute>>

\* a runAction call of the handler rejected instead of returning a result
SomeActionRejected ==
  \E j \in 1..Len(log) :
    /\ log[j].call # "saveRoute"
    /\ "kind" \in DOMAIN log[j].reply
    /\ log[j].reply.kind = "rejects"

SomeFailureResult ==
  \/ GeocodeFailed(departureGeoResult) \/ GeocodeFailed(destinationGeoResult)
  \/ RouterFailures # {}
  \/ \E r \in Replies("searchFlights") : "success" \in DOMAIN r /\ ~r.success

\* C20: within one generation no step is made twice (the geocoder is called
\* once for each place; the router, the flight search with its token, the visa
\* lookup and the narrative request at most once each), and a failure result
\* of geocoding, routing or flight search does not end the run: the flight
\* search, the visa lookup and the narrative request are still made.
NoRetryAndNoAbortOnFailure ==
  /\ CountCalls("getCoordinatesForLocation") <= 2
  /\ CountCalls("GET geocode") <= 2
  /\ \A name \in {"getHereRoute", "GET routes", "searchFlights", "getAmadeusToken",
                  "POST oauth2/token", "GET flight-offers", "getVisaRequirements",
                  "POST chat/completions", "saveRoute"} :
       CountCalls(name) <= 1
  /\ (CountCalls("getCoordinatesForLocation") = 2) => departureGeoResult # NoData
  /\ (pc \in {"done", "failed"} /\ env.openaiKey /\ ~SomeActionRejected) =>
       /\ CountCalls("getCoordinatesForLocation") = 2
       /\ CountCalls("searchFlights") = 1
       /\ CountCalls("getVisaRequirements") = 1
       /\ CountCalls("POST chat/completions") = 1

\* geocoding and the flight search both reported failure and the run went on
\* to the visa lookup and the narrative
NoAbortOnFailureWitness ==
  /\ Returned /\ caught = Undefined
  /\ GeocodeFailed(destinationGeoResult)
  /\ \E r \in Replies("searchFlights") : "success" \in DOMAIN r /\ ~r.success
  /\ CountCalls("getVisaRequirements") = 1
  /\ CountCalls("POST chat/completions") = 1
  /\ result.aiResponse = "Here is your personalised travel plan."

NonEmptyText(t) == t # Undefined /\ t # ""

\* C21: in every returned plan an error tag implies the degraded shape: an
\* error route has distance 0, duration 0, the requested transport mode as its
\* only method and a non-empty error text; an error flight has no segments,
\* price 0 and a non-empty error text; a live route carries no error text.
ErrorTagImpliesDegradedShape ==
  Returned =>
    /\ result.routeData.source = "error" =>
         /\ result.routeData.distance = 0
         /\ result.routeData.duration = 0
         /\ result.routeData.transportMethods = <<args.transportMode>>
         /\ NonEmptyText(result.routeData.error)
    /\ result.flightData.source = "error" =>
         /\ result.flightData.segments = <<>>
         /\ result.flightData.totalPrice = 0
         /\ NonEmptyText(result.flightData.error)
    /\ result.routeData.source = "live" => result.routeData.error = Undefined

\* the router failed with an empty message and the flight request with a thrown error
ErrorTagImpliesDegradedShapeWitness ==
  /\ Returned /\ caught = Undefined
  /\ RouterFailures # {}
  /\ result.routeData.source = "error"
  /\ result.flightData.source = "error"
  /\ [kind |-> "throw", message |-> ""] \in Replies("GET flight-offers")

ApologyResponse == "There was a critical issue generating the travel plan..."

\* what the catch clause leaves in a sub-result, given what it found there
KeptOrFilled(before, after, placeholder) ==
  IF before = NoData THEN after = placeholder ELSE after = before

\* C22: the catch clause keeps each of route, flight and visa that was set
\* before the exception and fills only the unset ones with the generic error
\* placeholder, the narrative becomes the fixed apology, and these values are
\* what the invocation then returns and persists.
CatchKeepsComputedResults ==
  [][ /\ pc = "catch" =>
           /\ KeptOrFilled(finalRouteData, finalRouteData',
                           errorRoute(args.transportMode, "Overall plan generation failed"))
           /\ KeptOrFilled(finalFlightData, finalFlightData', errorFlight)
           /\ KeptOrFilled(finalVisaRequirements, finalVisaRequirements', errorVisa)
           /\ finalAiResponse' = ApologyResponse
      /\ (pc = "save" /\ pc' = "done" /\ caught # Undefined) =>
           /\ result'.routeData = finalRouteData
           /\ result'.flightData = finalFlightData
           /\ result'.visaRequirements = finalVisaRequirements
           /\ result'.aiResponse = ApologyResponse
           /\ routes'[Len(routes')].routeData = finalRouteData
           /\ routes'[Len(routes')].flightData = finalFlightData
           /\ routes'[Len(routes')].visaRequirements = finalVisaRequirements
           /\ routes'[Len(routes')].aiResponse = ApologyResponse ]_vars

\* the narrative request threw after a live route, a live flight and the visa
\* answer had been computed, and all three came back as they were
CatchKeepsComputedResultsWitness ==
  /\ ViaCatch
  /\ CountCalls("POST chat/completions") = 1
  /\ result.routeData.source = "live"
  /\ result.flightData.source = "live" /\ result.flightData.totalPrice > 0
  /\ result.visaRequirements.source = "mock"
  /\ result.aiResponse = ApologyResponse

StartsWith(s, prefix) == Len(s) >= Len(prefix) /\ SubSeq(s, 1, Len(prefix)) = prefix

SomeErrorTag ==
  \/ result.routeData.source = "error"
  \/ result.flightData.source = "error"
  \/ result.visaRequirements.source = "error"

HasRouteFragment ==
  \/ includes(result.planStatusMessage, "Geocoding failed: ")
  \/ includes(result.planStatusMessage, "Route information error: ")

HasFlightFragment == includes(result.planStatusMessage, "Flight information error: ")

StartsWithOverallNotice ==
  StartsWith(result.planStatusMessage, "Overall plan generation failed: " \o caught \o ".")

\* C23 as stated: a returned plan with an error-tagged sub-result has a status
\* message; a route error comes with a geocoding or route fragment, a flight
\* error with a flight fragment, and a plan of the catch path starts with the
\* overall-failure notice.
EveryErrorHasItsFragment ==
  Returned =>
    /\ SomeErrorTag => NonEmptyText(result.planStatusMessage)
    /\ result.routeData.source = "error" => HasRouteFragment
    /\ result.flightData.source = "error" => HasFlightFragment
    /\ ViaCatch => StartsWithOverallNotice

PlaceholderText == "Overall plan generation failed"

\* C23, amended: a returned plan with an error-tagged sub-result has a status
\* message; a route error comes with a geocoding or route fragment and a
\* flight error with a flight fragment, unless the sub-result is the
\* placeholder the catch path filled in for a step that never ran, which only
\* the overall-failure notice accounts for; a plan of the catch path starts
\* with that notice, followed by the fragments accumulated before the exception.
EveryComputedErrorHasItsFragment ==
  Returned =>
    /\ SomeErrorTag => NonEmptyText(result.planStatusMessage)
    /\ result.routeData.source = "error" =>
         \/ HasRouteFragment
         \/ ViaCatch /\ result.routeData.error = PlaceholderText /\ StartsWithOverallNotice
    /\ result.flightData.source = "error" =>
         \/ HasFlightFragment
         \/ ViaCatch /\ result.flightData = errorFlight /\ StartsWithOverallNotice
    /\ result.visaRequirements.source = "error" =>
         ViaCatch /\ result.visaRequirements = errorVisa /\ StartsWithOverallNotice
    /\ ViaCatch => StartsWithOverallNotice
    /\ (ViaCatch /\ GeocodeFailed(destinationGeoResult)) =>
         includes(result.planStatusMessage, geoErrorMsg(departureGeoResult, destinationGeoResult))

\* the flight search rejected after a geocoding failure: the route error has its
\* fragment behind the notice, the flight is the placeholder
EveryComputedErrorWitness ==
  /\ ViaCatch
  /\ GeocodeFailed(destinationGeoResult)
  /\ HasRouteFragment
  /\ result.flightData = errorFlight
  /\ ~HasFlightFragment
  /\ StartsWithOverallNotice

\* a text that neither starts nor ends with a blank
Unpadded(t) ==
  /\ Len(t) > 0
  /\ ~IsSpace(CharAt(t, 1))
  /\ ~IsSpace(CharAt(t, Len(t)))

\* C24: the status message returned and persisted is never empty nor padded
\* with blanks; every returned plan carries one, and on the path without
\* exception it contains the visa mock note, also when every provider and the
\* narrative request succeeded.
StatusMessagePresentAndTrimmed ==
  Returned =>
    /\ result.planStatusMessage # Undefined
    /\ Unpadded(result.planStatusMessage)
    /\ LastDocument.planStatusMessage = result.planStatusMessage
    /\ caught = Undefined => includes(result.planStatusMessage, mockNote)

\* everything succeeded: live route, live priced flight, a narrative; the
\* message is the visa note alone
StatusMessageWitness ==
  /\ Returned /\ caught = Undefined
  /\ result.routeData.source = "live"
  /\ result.flightData.source = "live" /\ result.flightData.totalPrice > 0
  /\ result.aiResponse = "Here is your personalised travel plan."
  /\ result.planStatusMessage = mockNote

\* C25: the route and the flight of a returned plan are tagged live or error,
\* the visa answer mock or error, and error on the visa answer only as the
\* placeholder of the catch path; the tag fallback is never produced, in the
\* returned plan or in the persisted one.
ProvenanceTagsRestricted ==
  Returned =>
    /\ result.routeData.source \in {"live", "error"}
    /\ result.flightData.source \in {"live", "error"}
    /\ result.visaRequirements.source \in {"mock", "error"}
    /\ result.visaRequirements.source = "error" =>
         ViaCatch /\ result.visaRequirements = errorVisa
    /\ LastDocument.routeData.source = result.routeData.source
    /\ LastDocument.flightData.source = result.flightData.source
    /\ LastDocument.visaRequirements.source = result.visaRequirements.source

\* the visa lookup rejected after a live route and a failed flight search
ProvenanceTagsWitness ==
  /\ ViaCatch
  /\ CountCalls("getVisaRequirements") = 1
  /\ CountCalls("POST chat/completions") = 0
  /\ result.routeData.source = "live"
  /\ result.flightData.source = "error"
  /\ result.visaRequirements.source = "error"

\* the document has a flight without a source
LacksFlightSource(doc) ==
  /\ doc.flightData # NoData
  /\ ("source" \notin DOMAIN doc.flightData \/ doc.flightData.source = Undefined)

\* what the migration may do to one document
PatchedAsDescribed(before, after) ==
  /\ LacksFlightSource(before)
  /\ after.flightData.source =
       (IF before.flightData.segments = <<>> /\ before.flightData.totalPrice = 0
        THEN "error" ELSE "fallback")
  /\ NonEmptyText(after.flightData.error)
  /\ \A f \in DOMAIN before.flightData \ {"source", "error"} :
       after.flightData[f] = before.flightData[f]
  /\ DOMAIN after = DOMAIN before
  /\ \A f \in DOMAIN before \ {"flightData"} : after[f] = before[f]

\* C26: the migration changes a document only when its flight lacks a source;
\* it then sets the source to error exactly when there are no segments and the
\* price is 0 and to fallback otherwise, keeps an error text that was there
\* and every other field; every other document stays as it was, and running
\* the migration again on a document it has patched changes nothing.
MigrationTouchesOnlyWhatItMust ==
  [][ \A i \in 1..Len(routes) :
        /\ i <= Len(routes')
        /\ routes'[i] # routes[i] =>
             /\ PatchedAsDescribed(routes[i], routes'[i])
             /\ migrateDocument(routes'[i]) = routes'[i]
        /\ ~LacksFlightSource(routes[i]) => routes'[i] = routes[i]
        /\ migratedFlightData([segments |-> <<>>, totalPrice |-> 0,
                               error |-> "No offers"]).error = "No offers" ]_vars

\* both documents of the first version have been patched, one to error and one
\* to fallback, and the table holds nothing else
MigrationWitness ==
  /\ Len(routes) = 2
  /\ routes[1] # LegacyRoute /\ routes[1].flightData.source = "error"
  /\ routes[2] # LegacyFlightRoute /\ routes[2].flightData.source = "fallback"
  /\ routes[2].flightData.segments = LegacyFlightRoute.flightData.segments
  /\ migrateDocument(routes[1]) = routes[1]
  /\ migrateDocument(routes[2]) = routes[2]

SomeDocumentLacksFlightSource ==
  \E i \in 1..Len(routes) : LacksFlightSource(routes[i])

\* C27: run again and again without a document id, the migration reaches
\* every document whose flight lacks a source, however many documents there
\* are: while such a document is left, another run patches something.
BatchRunsReachEveryDocument ==
  SomeDocumentLacksFlightSource => ENABLED <<MigrateBatch>>_vars

\* C27, as an eventuality under repeated runs: in the end no document lacks a source
BatchRunsEventuallyMigrateAll == <>[](~SomeDocumentLacksFlightSource)

\* C28: at most one generateTravelPlan call is in flight; while one is,
\* exactly one of isLoading and isRegenerating is true and the submit and
\* regenerate buttons are disabled; the two flags are never both true, and
\* both are false when no call is in flight.
OneGenerationInFlight ==
  /\ Len(pending) <= 1
  /\ ~(isLoading /\ isRegenerating)
  /\ pending # <<>> => /\ isLoading # isRegenerating
                       /\ submitDisabled
                       /\ regenerateDisabled
  /\ pending = <<>> => ~isLoading /\ ~isRegenerating

\* a regeneration is in flight while the form is on display after New Plan
OneGenerationInFlightWitness ==
  /\ Len(pending) = 1
  /\ pending[1].travelPlan # null
  /\ isRegenerating /\ ~isLoading
  /\ travelPlan = null
  /\ requiredFieldsFilled(formData)

\* C29: once New Plan has cleared the plan, a plan is displayed again only
\* when a generation submitted from the form completes; a regeneration that
\* was in flight at the click does not bring a plan back.
NewPlanStaysCleared ==
  [][ (travelPlan = null /\ travelPlan' # null) =>
        \E i \in 1..Len(pending) :
          /\ pending[i].travelPlan = null
          /\ pending' = Without(pending, i)
          /\ travelPlan'.formData = pending[i].currentFormData ]_vars

\* C30: a run of the GoogleMap effect that has been cleaned up makes no state
\* update and writes nothing into the map container when its continuation
\* resumes, also when a newer run of the effect has started.
CleanedUpRunsAreInert ==
  [][ \A k \in 1..Len(effectRuns) :
        ( /\ effectRuns[k].cleanedUp
          /\ k <= Len(effectRuns')
          /\ effectRuns'[k].pc # effectRuns[k].pc )
        => UNCHANGED << mapIsLoading, mapError, innerHTML >> ]_vars

====
